---- MODULE Spec2Model ----
(***************************************************************************)
(* Kademlia DHT node with signature + Proof-of-Space admission.            *)
(*                                                                         *)
(* The module holds several specifications over one set of variables:      *)
(*   SpecRT    the routing table of one node: Update / GetClosestNodes     *)
(*   SpecJoin  the server side of the admission handshake (handlePacket    *)
(*             for JOIN_REQ, JOIN_RES and POS_PROOF) under arbitrary       *)
(*             inbound datagrams and a clock                               *)
(*   Spec      a small overlay of nodes running Store / FindValue /        *)
(*             NodeLookup and the inbound RPC handlers                     *)
(*   SpecTimer the replication timers of one node and their goroutines;    *)
(*             SpecTimerLive adds the fairness of the goroutines           *)
(*   SpecRepl  the overlay with a joining node and replication ticks over  *)
(*             a reliable network; SpecReplLive adds fairness              *)
(*   SpecPos   the prefix Proof of Space: plot generation, search and      *)
(*             verification                                                *)
(*   SpecRpc   the correlation of outbound requests and inbound responses  *)
(*             by rpc id                                                   *)
(*   SpecJoinLive  SpecJoin with a clock that keeps advancing              *)
(*   SpecJoinClient  JoinNetwork at the joining node under arbitrary       *)
(*             inbound responses; SpecJoinClientLive adds fairness         *)
(*   SpecHandshake  JoinNetwork against the server's handlers, followed    *)
(*             by the caller's routing-table update and self-lookup        *)
(*   SpecReliable  the overlay of Spec over a network that delivers every  *)
(*             datagram                                                    *)
(*   SpecPrefix  the prefix comparison and the plot search on hashes of    *)
(*             bytes, for prefixes of any bit length                       *)
(*   SpecLock  the read-write locks of the routing table and its buckets   *)
(*             under GetClosestNodes and concurrent calls of Update        *)
(*   SpecLookup  NodeLookup and FindValue at one node against peers that   *)
(*             answer with any contacts; SpecLookupLive adds the fairness  *)
(*             of the lookup loop                                          *)
(* Identifiers are IdBits wide instead of 256 bits; the routing table has  *)
(* one bucket per bit, as in the source (KeySizeBytes * 8 buckets).        *)
(***************************************************************************)
EXTENDS Naturals, Integers, Sequences, FiniteSets, TLC

\* ------------------------------------------------------------------ bounds
\* Width of a NodeID in bits (the source uses KeySizeBytes * 8 = 256).
IdBits == 3
\* SpecJoin: the server's random nonces are drawn from 1 .. NumNonces.
NumNonces == 2
\* SpecJoin: PoS challenge values are drawn from 1 .. NumChallenges.
NumChallenges == 2
\* SpecJoin: seconds by which one Tick advances the clock, and the last instant.
TickStep == 5
MaxTime == 15
\* SpecJoin: entries per plot layer (PlotSize / 48 / 3 in GenerateChallenge).
PosEntries == 2
\* Spec: keys stored and looked up are the ids below NumDataKeys; values are
\* 1 .. NumValues.
NumDataKeys == 1
NumValues == 2
\* Spec: the number of API calls (bootstrap, Store, FindValue) of a behaviour.
MaxCalls == 3
\* SpecRT: contacts handed to RoutingTable.Update have ids 0 .. MaxInputId.
MaxInputId == 7
\* SpecRepl: the number of API calls (bootstrap, Store) of a behaviour.
MaxReplCalls == 4
\* SpecPos: entries of a plot (constants.PosNumEntries is 400000), entries
\* of one chunk (chunkSize is 50000), bits of a challenge prefix
\* (constants.PosPrefixBits is 16) and bits of a hash (SHA-256 has 256).
PosNumEntries == 4
ChunkSize == 2
PosPrefixBits == 2
HashBits == 4
\* SpecPos: raw values offered to VerifyProof carry one of NumJunk suffixes
\* that are not decimal numbers.
NumJunk == 2
\* SpecLookup: the peers' ids are the ids below LookupPeers; a reply holds at
\* most MaxReply contacts.
LookupPeers == 4
MaxReply == 1
\* SpecLock: the goroutines that call RoutingTable.Update concurrently.
NumWriters == 2
\* SpecRpc: the outbound requests of a behaviour and the last reading of the
\* clock.
MaxRpcs == 2
MaxNanos == 1
\* SpecTimer: the number of replication timers one behaviour creates.
MaxTimers == 2

NumBuckets == IdBits
Ids == 0 .. (2 ^ IdBits - 1)

\* ------------------------------------------------------- program constants
\* constants.K: bucket capacity and NodeLookup width.
K == 3
\* The literal count that HandleFindNode, HandleFindValue and FindValue pass
\* to GetClosestNodes.
FindCount == 20
\* The age in seconds beyond which HandleJoinResponse rejects a challenge.
ChallengeTTL == 10
\* The seconds JoinNetwork waits in each of its selects.
HandshakeTimeout == 10

\* The overlay's node ids. The first is the genesis node: the node whose
\* routing table SpecRT exercises and the server of SpecJoin.
NodeIds == << 5, 6, 3 >>
Genesis == NodeIds[1]
\* SpecRepl: the id of the node that joins after the key was stored.
NewNodeId == 1

\* ------------------------------------------------------------ NodeID algebra
RECURSIVE XorBits(_, _, _)
XorBits(a, b, n) ==
    IF n = 0 THEN 0
    ELSE (((a % 2) + (b % 2)) % 2) + (2 * XorBits(a \div 2, b \div 2, n - 1))

\* The exclusive or of every pair of ids, tabulated once.
XorTable == [a \in Ids |-> [b \in Ids |-> XorBits(a, b, IdBits)]]

\* NodeID.Xor: bytewise (here bitwise) exclusive or.
Xor(a, b) == XorTable[a][b]

RECURSIVE BitLen(_)
BitLen(x) == IF x = 0 THEN 0 ELSE 1 + BitLen(x \div 2)

\* NodeID.PrefixLen: number of leading bits the two ids share; the full
\* width when they are equal.
PrefixLenTable == [d \in Ids |-> IdBits - BitLen(d)]
PrefixLen(a, b) == PrefixLenTable[Xor(a, b)]

\* NodeID.Less: unsigned big-endian comparison.
Less(a, b) == a < b

\* ------------------------------------------------------------------ buckets
SeqToSet(s) == { s[i] : i \in 1 .. Len(s) }

IndexOf(s, x) ==
    IF \E i \in 1 .. Len(s) : s[i] = x
    THEN CHOOSE i \in 1 .. Len(s) : s[i] = x /\ \A j \in 1 .. (i - 1) : s[j] # x
    ELSE 0

RemoveAt(s, i) == SubSeq(s, 1, i - 1) \o SubSeq(s, i + 1, Len(s))

\* Bucket.Update that only refreshes contacts it already holds.
BucketUpdateKnownOnly(contacts, c) ==
    LET foundIndex == IndexOf(contacts, c) IN
    IF foundIndex # 0 THEN Append(RemoveAt(contacts, foundIndex), c)
    ELSE contacts

\* RoutingTable.GetBucketIndex counting from the far end: the bucket of the
\* distance's highest set bit.
GetBucketIndexByDistance(self, targetID) ==
    LET index == NumBuckets - 1 - PrefixLen(self, targetID) IN
    IF index < 0 THEN 0 ELSE index

\* Bucket.Update that leaves a contact it already holds where it is.
BucketUpdateInPlace(contacts, c) ==
    LET foundIndex == IndexOf(contacts, c) IN
    IF foundIndex # 0 THEN contacts
    ELSE IF Len(contacts) < K THEN Append(contacts, c)
    ELSE contacts

\* Bucket.Update without its capacity test.
BucketUpdateNoCap(contacts, c) ==
    LET i == IndexOf(contacts, c) IN
    IF i # 0 THEN Append(RemoveAt(contacts, i), c)
    ELSE Append(contacts, c)

\* Bucket.Update, run under the bucket's write lock: an existing contact moves
\* to the tail; a new one is appended while there is room; else it is dropped.
BucketUpdate(contacts, c) ==
    LET foundIndex == IndexOf(contacts, c) IN
    IF foundIndex # 0 THEN Append(RemoveAt(contacts, foundIndex), c)
    ELSE IF Len(contacts) < K THEN Append(contacts, c)
    ELSE contacts

\* ------------------------------------------------------------ routing table
EmptyTable == [i \in 0 .. (NumBuckets - 1) |-> << >>]

\* RoutingTable.GetBucketIndex: PrefixLen clamped to the last bucket.
GetBucketIndex(self, targetID) ==
    LET index == PrefixLen(self, targetID) IN
    IF index >= NumBuckets THEN NumBuckets - 1 ELSE index

\* RoutingTable.Update: no test against self; dispatch to the bucket.
RoutingTableUpdate(table, self, contact) ==
    LET bucketIndex == GetBucketIndex(self, contact) IN
    [table EXCEPT ![bucketIndex] = BucketUpdate(table[bucketIndex], contact)]

RECURSIVE InsertSorted(_, _, _)
InsertSorted(sorted, c, target) ==
    IF sorted = << >> THEN << c >>
    ELSE IF Less(Xor(c, target), Xor(Head(sorted), target))
         THEN << c >> \o sorted
         ELSE << Head(sorted) >> \o InsertSorted(Tail(sorted), c, target)

RECURSIVE SortByDistance(_, _)
\* sort.Slice with the comparator Xor(i, target).Less(Xor(j, target)).
SortByDistance(nodes, target) ==
    IF nodes = << >> THEN << >>
    ELSE InsertSorted(SortByDistance(Tail(nodes), target), Head(nodes), target)

RECURSIVE CollectBuckets(_, _, _, _, _)
\* The expansion loop of GetClosestNodes: bucketIndex-i then bucketIndex+i,
\* for i = 1, 2, ... while fewer than count contacts are pooled.
CollectBuckets(table, bucketIndex, i, nodes, count) ==
    IF Len(nodes) < count /\ (bucketIndex - i >= 0 \/ bucketIndex + i < NumBuckets)
    THEN CollectBuckets(table, bucketIndex, i + 1,
            nodes
              \o (IF bucketIndex - i >= 0 THEN table[bucketIndex - i] ELSE << >>)
              \o (IF bucketIndex + i < NumBuckets THEN table[bucketIndex + i] ELSE << >>),
            count)
    ELSE nodes

Truncate(s, count) == IF Len(s) > count THEN SubSeq(s, 1, count) ELSE s

\* GetClosestNodes without its sort.
GetClosestNodesUnsorted(table, self, targetID, count) ==
    LET bucketIndex == GetBucketIndex(self, targetID) IN
    Truncate(CollectBuckets(table, bucketIndex, 1, table[bucketIndex], count), count)

\* RoutingTable.GetClosestNodes.
GetClosestNodes(table, self, targetID, count) ==
    LET bucketIndex == GetBucketIndex(self, targetID)
        nodes == CollectBuckets(table, bucketIndex, 1, table[bucketIndex], count)
    IN  Truncate(SortByDistance(nodes, targetID), count)

AllContacts(table) == UNION { SeqToSet(table[i]) : i \in 0 .. (NumBuckets - 1) }

TotalContacts(table) ==
    LET RECURSIVE Sum(_)
        Sum(i) == IF i < 0 THEN 0 ELSE Len(table[i]) + Sum(i - 1)
    IN  Sum(NumBuckets - 1)

\* ---------------------------------------------------------------- variables
VARIABLES
    RoutingTable,   \* per node: bucket index -> sequence of contact ids
    closest,        \* the last GetClosestNodes call and what it returned
    PendingChallenges, \* server: peer id -> {Nonce, Timestamp, PubKey} or NoChallenge
    now,            \* the server's clock, in seconds
    handled,        \* the datagram handlePacket processed last, and its response
    posIssued,      \* history: the PoS challenge last sent to each peer and not
                    \* yet answered (the code keeps no such record)
    Storage,        \* per node: key -> value, for the keys held locally
    ReplicationTimers, \* per node: the keys that have a timer in the timer table
    joined,         \* the nodes that are running
    running,           \* the Store, FindValue or bootstrap call in progress
    result,         \* what the call that returned in the last step returned
    calls,          \* the number of API calls the behaviour may still make
    timerOf,        \* genesis node: key -> the timer instance of its table entry
    workers,        \* genesis node: the timer instances created so far
    appStore,       \* genesis node: the application's Store call in progress
    ticked,         \* history: the last replication tick that began a Store
    plotPeer,       \* Plot.PeerID of the node's plot
    tempFiles,      \* the temp_chunk_<i>.dat files of the data directory
    plotFile,       \* the plot file of the data directory, or NoFile
    posResult,      \* what the last SearchMatchingHash / VerifyProof returned
    posInput,       \* the arguments that VerifyProof is called with
    nanos,          \* what time.Now().UnixNano() returns
    ResponseChannels, \* Network.ResponseChannels: rpc id -> channel
    requests,       \* the outbound requests so far; a request's channel is
                    \* known by the request's position in the sequence
    lastPacket,     \* history: the response handlePacket processed last
    joiner,         \* the JoinNetwork call of the joining node: its position,
                    \* its response channels and what it returned
    wire,           \* handshake requests sent and not yet handled
    rwmutex,        \* genesis node: the state of each sync.RWMutex of the
                    \* routing table (one per bucket, one for the table)
    lockers         \* genesis node: the goroutines calling GetClosestNodes
                    \* and Update, each with its position

rtVars == << RoutingTable, closest >>
joinVars == << PendingChallenges, now, handled, posIssued >>
netVars == << Storage, ReplicationTimers, joined, running, result, calls >>
timerVars == << timerOf, workers, appStore >>
replVars == << ticked >>
posVars == << plotPeer, tempFiles, plotFile, posResult, posInput >>
rpcVars == << nanos, ResponseChannels, requests, lastPacket >>
hsVars == << joiner, wire >>
lockVars == << rwmutex, lockers >>
extVars == << timerVars, replVars, posVars, rpcVars, hsVars, lockVars >>
vars == << RoutingTable, closest, PendingChallenges, now, handled, posIssued,
          Storage, ReplicationTimers, joined, running, result, calls,
          timerOf, workers, appStore, ticked,
          plotPeer, tempFiles, plotFile, posResult, posInput,
          nanos, ResponseChannels, requests, lastPacket, joiner, wire,
          rwmutex, lockers >>

NoCall == [target |-> 0, count |-> 0, nodes |-> << >>, called |-> FALSE]

\* Counts passed to GetClosestNodes: 1, constants.K and the literal 20.
Counts == {1, K, FindCount}

\* ------------------------------------------------------------------ SpecRT
NoChallenge == [exists |-> FALSE]
NoPacket == [type |-> "none"]
NoIssued == [issued |-> FALSE]

JoinPeers == { NodeIds[2], NodeIds[3] }

Nodes == SeqToSet(NodeIds)
Idle == [op |-> "none"]
NoResult == [op |-> "none"]
EmptyStorage == [k \in {} |-> 0]

InitNetVars ==
    /\ Storage = [n \in Nodes |-> EmptyStorage]
    /\ ReplicationTimers = [n \in Nodes |-> {}]
    /\ joined = {Genesis}
    /\ running = Idle
    /\ result = NoResult
    /\ calls = MaxCalls

NoStore == [op |-> "none"]

InitTimerVars ==
    /\ timerOf = [k \in {} |-> 0]
    /\ workers = << >>
    /\ appStore = NoStore

NoTick == [node |-> 0, premise |-> FALSE]

InitReplVars ==
    /\ ticked = NoTick

NoFile == [exists |-> FALSE]
NoPosResult == [op |-> "none"]

\* The data directory is empty and nothing was searched or verified.
InitPlotVars ==
    /\ tempFiles = << >>
    /\ plotFile = NoFile
    /\ posResult = NoPosResult

NoInput == [peerID |-> 0]

InitPosVars ==
    /\ plotPeer = Genesis
    /\ posInput = NoInput
    /\ InitPlotVars

NoResponse == [type |-> "none"]

InitRpcVars ==
    /\ nanos = 0
    /\ ResponseChannels = [id \in {} |-> 0]
    /\ requests = << >>
    /\ lastPacket = NoResponse

\* The three response channels of one JoinNetwork call, by the step that
\* registers them: respChan, ackChan, finalChan.
JoinSteps == 1 .. 3

NotJoining ==
    [pc |-> "idle", waited |-> 0, registered |-> {},
     chans |-> [i \in JoinSteps |-> << >>], bootstrap |-> 0,
     result |-> "none", last |-> NoPacket, posted |-> FALSE]

InitHsVars ==
    /\ joiner = NotJoining
    /\ wire = {}

\* The locks of the routing table: bucket i has lock i, the table has the
\* lock after the last bucket's.
RtLock == NumBuckets
LockIds == 0 .. NumBuckets

\* A sync.RWMutex: the number of read locks held, the goroutine holding the
\* write lock (0: none) and the goroutines blocked in Lock.
FreeMutex == [readers |-> 0, holder |-> 0, pending |-> {}]

\* Goroutine 0 calls GetClosestNodes; goroutines 1 .. NumWriters call Update.
ReaderId == 0
WriterIds == 1 .. NumWriters

IdleReader == [pc |-> "idle", target |-> 0, count |-> 0, nodes |-> << >>,
               todo |-> << >>, i |-> 0]
IdleWriter == [pc |-> "idle", contact |-> 0]

InitLockVars ==
    /\ rwmutex = [l \in LockIds |-> FreeMutex]
    /\ lockers = [g \in {ReaderId} \cup WriterIds |->
                     IF g = ReaderId THEN IdleReader ELSE IdleWriter]

InitExtVars ==
    /\ InitTimerVars
    /\ InitReplVars
    /\ InitPosVars
    /\ InitRpcVars
    /\ InitHsVars
    /\ InitLockVars

InitJoinVars ==
    /\ PendingChallenges = [p \in JoinPeers |-> NoChallenge]
    /\ now = 0
    /\ handled = NoPacket
    /\ posIssued = [p \in JoinPeers |-> NoIssued]

InitRT ==
    /\ RoutingTable = [n \in {Genesis} |-> EmptyTable]
    /\ closest = NoCall
    /\ InitJoinVars
    /\ InitNetVars
    /\ InitExtVars

\* rt.Update(contact) for an arbitrary contact id; result records the call
\* and the table it was made on.
Update(c) ==
    /\ RoutingTable' = [RoutingTable EXCEPT
            ![Genesis] = RoutingTableUpdate(RoutingTable[Genesis], Genesis, c)]
    /\ closest' = NoCall
    /\ result' = [op |-> "Update", contact |-> c, before |-> RoutingTable[Genesis]]
    /\ UNCHANGED << joinVars, Storage, ReplicationTimers, joined, running, calls,
                    extVars >>

\* rt.GetClosestNodes(target, count).
CallGetClosestNodes(target, count) ==
    /\ ~closest.called
    /\ closest' = [target |-> target, count |-> count, called |-> TRUE,
                   nodes |-> GetClosestNodes(RoutingTable[Genesis], Genesis, target, count)]
    /\ UNCHANGED << RoutingTable, joinVars, netVars, extVars >>

InputIds == { c \in Ids : c <= MaxInputId }

NextRT ==
    \/ \E c \in InputIds : Update(c)
    \/ \E t \in Ids, n \in Counts : CallGetClosestNodes(t, n)

SpecRT == InitRT /\ [][NextRT]_vars

\* ---------------------------------------------------------------- SpecJoin
\* The server side of the admission handshake at the node Genesis. Datagrams
\* arrive from the network in any order and with any content: handlePacket
\* takes whatever a peer sends.

\* Key material is a number in Ids; the private key is identified with its
\* public key. GeneratePeerIDFromPublicKey is SHA-256 of the marshalled key:
\* here a bijection on Ids that is not the identity.
GeneratePeerIDFromPublicKey(pubKey) == (5 * pubKey + 3) % (2 ^ IdBits)

CheckPublicKeyMatchesPeerID(pubKey, peerID) ==
    GeneratePeerIDFromPublicKey(pubKey) = peerID

\* The key pair a peer generated its id from.
KeyOf(p) == CHOOSE k \in Ids : GeneratePeerIDFromPublicKey(k) = p

PeerKeys == { KeyOf(p) : p \in JoinPeers }

\* The bytes of a PublicKey field: x509.ParsePKIXPublicKey succeeds with an
\* ECDSA key, or fails.
KeyBytes == [parses : BOOLEAN, key : PeerKeys]

Nonces == 1 .. NumNonces

SignMessage(privateKey, message) == [signer |-> privateKey, msg |-> message]

VerifySignature(pubKey, message, signature) ==
    /\ signature.signer = pubKey
    /\ signature.msg = message

\* Signatures a peer can put in a JOIN_RES; msg 0 is a message that is never
\* a nonce of the server.
Signatures == { SignMessage(k, m) : k \in PeerKeys, m \in 0 .. NumNonces }

JoinRequestPayloads == [PeerID : JoinPeers, PublicKey : KeyBytes]

ChallengeValues == 1 .. NumChallenges

\* GenerateChallenge: the index is the value's first 8 bytes modulo the
\* number of entries per layer.
ChallengeIndex(value) == value % PosEntries

\* A proof chain, by what VerifyProof can tell of it: empty; or not a sound
\* chain (a derived entry does not hash from its parents, a layer or a parent
\* is missing); or a sound three-layer chain whose layer 0 was generated from
\* the id owner and whose last layer holds the entry at index.
ProofChains ==
    { [kind |-> "empty"], [kind |-> "unsound"] } \cup
    [kind : {"sound"}, owner : JoinPeers, index : 0 .. (PosEntries - 1)]

PosProofPayloads ==
    [ChallengeValue : ChallengeValues, StartIndex : 0 .. (PosEntries - 1),
     ProofChain : ProofChains]

\* pos.VerifyProof(peerID, challenge, proof).
VerifyProof(peerID, challenge, proof) ==
    /\ proof.Challenge = challenge.Value
    /\ proof.ProofChain.kind # "empty"
    /\ proof.ProofChain.kind = "sound"
    /\ proof.ProofChain.owner = peerID
    /\ proof.ProofChain.index = challenge.StartIndex

\* The expiry test of HandleJoinResponse, dropped.
ChallengeNeverExpires(timestamp, t) == FALSE

\* time.Since(challenge.Timestamp) > 10*time.Second
ChallengeExpired(timestamp, t) == t - timestamp > ChallengeTTL

DeleteChallenge(pending, id) == [pending EXCEPT ![id] = NoChallenge]

\* Node.HandleJoinRequest: the error (or ""), the table of pending challenges
\* afterwards and the nonce of the JOIN_CHALLENGE.
HandleJoinRequest(pending, t, payload, nonce) ==
    IF ~payload.PublicKey.parses
    THEN [err |-> "invalid public key format", pending |-> pending, Nonce |-> 0]
    ELSE IF ~CheckPublicKeyMatchesPeerID(payload.PublicKey.key, payload.PeerID)
    THEN [err |-> "public key does not match PeerID - potential sybil attack",
          pending |-> pending, Nonce |-> 0]
    ELSE [err |-> "",
          pending |-> [pending EXCEPT ![payload.PeerID] =
                          [exists |-> TRUE, Nonce |-> nonce, Timestamp |-> t,
                           PubKey |-> payload.PublicKey]],
          Nonce |-> nonce]

\* Node.HandleJoinResponse: the error (or ""), and the pending challenges and
\* the routing table afterwards.
HandleJoinResponse(pending, table, self, t, sender, payload) ==
    LET challenge == pending[sender] IN
    IF ~challenge.exists
    THEN [err |-> "no pending challenge", pending |-> pending, table |-> table]
    ELSE IF ChallengeExpired(challenge.Timestamp, t)
    THEN [err |-> "challenge expired", pending |-> DeleteChallenge(pending, sender),
          table |-> table]
    ELSE IF ~challenge.PubKey.parses
    THEN [err |-> "invalid public key", pending |-> pending, table |-> table]
    ELSE IF ~VerifySignature(challenge.PubKey.key, challenge.Nonce, payload.Signature)
    THEN [err |-> "invalid signature", pending |-> DeleteChallenge(pending, sender),
          table |-> table]
    ELSE [err |-> "", pending |-> DeleteChallenge(pending, sender),
          table |-> RoutingTableUpdate(table, self, sender)]

\* Node.HandlePosChallenge: a fresh challenge; the pending entry of the
\* sender, if there is one, gets a new timestamp.
HandlePosChallenge(pending, t, sender, value) ==
    [pending |-> IF pending[sender].exists
                 THEN [pending EXCEPT ![sender].Timestamp = t]
                 ELSE pending,
     challenge |-> [ChallengeValue |-> value, StartIndex |-> ChallengeIndex(value)]]

\* Node.HandlePosProof: the challenge is rebuilt from the payload.
HandlePosProof(pending, table, self, sender, payload) ==
    LET challenge == [Value |-> payload.ChallengeValue,
                      StartIndex |-> payload.StartIndex]
        proof == [Challenge |-> payload.ChallengeValue,
                  ProofChain |-> payload.ProofChain]
    IN  IF ~VerifyProof(sender, challenge, proof)
        THEN [err |-> "PoS verification failed",
              pending |-> DeleteChallenge(pending, sender), table |-> table]
        ELSE [err |-> "", pending |-> DeleteChallenge(pending, sender),
              table |-> RoutingTableUpdate(table, self, sender)]

NoReply == [type |-> "none"]

JoinAck(success, message) ==
    [type |-> "JOIN_ACK", Success |-> success, Message |-> message]

InitJoin ==
    /\ RoutingTable = [n \in {Genesis} |-> EmptyTable]
    /\ closest = NoCall
    /\ InitJoinVars
    /\ InitNetVars
    /\ InitExtVars

\* handlePacket, case JOIN_REQ: an error of the handler is printed and the
\* function returns; otherwise the JOIN_CHALLENGE is sent.
ReceiveJoinReq(sender, payload, nonce) ==
    LET r == HandleJoinRequest(PendingChallenges, now, payload, nonce) IN
    /\ PendingChallenges' = r.pending
    /\ handled' = [type |-> "JOIN_REQ", sender |-> sender, payload |-> payload,
                   reply |-> IF r.err # "" THEN NoReply
                             ELSE [type |-> "JOIN_CHALLENGE", Nonce |-> r.Nonce]]
    /\ posIssued' = IF r.err # "" THEN posIssued
                    ELSE [posIssued EXCEPT ![payload.PeerID] = NoIssued]
    /\ UNCHANGED << RoutingTable, closest, now, netVars, extVars >>

\* handlePacket, case JOIN_RES: an error of HandleJoinResponse is answered
\* with JOIN_ACK(false); otherwise HandlePosChallenge runs and its challenge
\* is sent (*Node has the method, so the type assertion succeeds).
ReceiveJoinRes(sender, payload, value) ==
    LET r == HandleJoinResponse(PendingChallenges, RoutingTable[Genesis], Genesis,
                                now, sender, payload)
        c == HandlePosChallenge(r.pending, now, sender, value)
    IN  /\ RoutingTable' = [RoutingTable EXCEPT ![Genesis] = r.table]
        /\ PendingChallenges' = IF r.err # "" THEN r.pending ELSE c.pending
        /\ handled' = [type |-> "JOIN_RES", sender |-> sender, payload |-> payload,
                       reply |-> IF r.err # "" THEN JoinAck(FALSE, r.err)
                                 ELSE [type |-> "POS_CHALLENGE",
                                       ChallengeValue |-> c.challenge.ChallengeValue,
                                       StartIndex |-> c.challenge.StartIndex]]
        /\ posIssued' = IF r.err # "" THEN posIssued
                        ELSE [posIssued EXCEPT ![sender] =
                                 [issued |-> TRUE, at |-> now,
                                  ChallengeValue |-> c.challenge.ChallengeValue,
                                  StartIndex |-> c.challenge.StartIndex]]
        /\ UNCHANGED << closest, now, netVars, extVars >>

\* handlePacket, case POS_PROOF.
ReceivePosProof(sender, payload) ==
    LET r == HandlePosProof(PendingChallenges, RoutingTable[Genesis], Genesis,
                            sender, payload)
    IN  /\ RoutingTable' = [RoutingTable EXCEPT ![Genesis] = r.table]
        /\ PendingChallenges' = r.pending
        /\ handled' = [type |-> "POS_PROOF", sender |-> sender, payload |-> payload,
                       reply |-> IF r.err # "" THEN JoinAck(FALSE, r.err)
                                 ELSE JoinAck(TRUE, "Welcome to the DHT network")]
        /\ posIssued' = [posIssued EXCEPT ![sender] = NoIssued]
        /\ UNCHANGED << closest, now, netVars, extVars >>

\* Time passes at the server.
Tick ==
    /\ now + TickStep <= MaxTime
    /\ now' = now + TickStep
    /\ handled' = NoPacket
    /\ UNCHANGED << RoutingTable, closest, PendingChallenges, posIssued, netVars, extVars >>

NextJoin ==
    \/ \E sender \in JoinPeers, payload \in JoinRequestPayloads, nonce \in Nonces :
            ReceiveJoinReq(sender, payload, nonce)
    \/ \E sender \in JoinPeers, sig \in Signatures, value \in ChallengeValues :
            ReceiveJoinRes(sender, [Signature |-> sig], value)
    \/ \E sender \in JoinPeers, payload \in PosProofPayloads :
            ReceivePosProof(sender, payload)
    \/ Tick

SpecJoin == InitJoin /\ [][NextJoin]_vars

\* The server's clock advances whatever the peers do; packets arrive only
\* when a peer sends them, so no handler is forced to run.
SpecJoinLive == SpecJoin /\ WF_vars(Tick)

\* -------------------------------------------------------------------- Spec
\* The network of the nodes NodeIds: the genesis node runs, the others join
\* through a running node, and the running nodes store and look up keys. One
\* API call is in progress at a time; every RPC of it is one step, in which
\* the request is lost, or the remote handler runs and the response is lost,
\* or the handler runs and the caller processes the response.

DataKeys == { k \in Ids : k < NumDataKeys }
Values == 1 .. NumValues
Outcomes == { "lost", "noreply", "ok" }

FilterSeq(s, drop) ==
    LET RECURSIVE F(_)
        F(i) == IF i > Len(s) THEN << >>
                ELSE IF s[i] = drop THEN F(i + 1) ELSE << s[i] >> \o F(i + 1)
    IN  F(1)

\* n.Storage[key] = value, dropped.
StoragePutDropped(storage, key, value) == storage

\* n.Storage[key] = value
StoragePut(storage, key, value) ==
    [k \in (DOMAIN storage) \cup {key} |-> IF k = key THEN value ELSE storage[k]]

\* startReplicationTimer: a timer of the key is stopped, the new one is put
\* into the timer table.
StartReplicationTimer(timers, key) == (timers \ {key}) \cup {key}

\* Node.HandleFindNode answering with no contact.
HandleFindNodeSilent(table, self, sender, targetID) ==
    [table |-> RoutingTableUpdate(table, self, sender), nodes |-> << >>]

\* Node.HandleFindNode: the table afterwards and the contacts returned.
HandleFindNode(table, self, sender, targetID) ==
    LET updated == RoutingTableUpdate(table, self, sender)
        allNodes == GetClosestNodes(updated, self, targetID, FindCount)
    IN  [table |-> updated, nodes |-> FilterSeq(allNodes, sender)]

\* Node.HandlePing
HandlePing(table, self, sender) == RoutingTableUpdate(table, self, sender)

\* Node.HandleStore that acknowledges without writing the pair.
HandleStoreNoWrite(table, self, storage, timers, sender, key, value) ==
    [table |-> RoutingTableUpdate(table, self, sender),
     storage |-> storage,
     timers |-> StartReplicationTimer(timers, key)]

\* Node.HandleStore
HandleStore(table, self, storage, timers, sender, key, value) ==
    [table |-> RoutingTableUpdate(table, self, sender),
     storage |-> StoragePut(storage, key, value),
     timers |-> StartReplicationTimer(timers, key)]

\* Node.HandleFindValue: the value if the key is held, else the closest
\* contacts of the table, the sender among them if it is one.
HandleFindValue(table, self, storage, sender, key) ==
    LET updated == RoutingTableUpdate(table, self, sender) IN
    IF key \in DOMAIN storage
    THEN [table |-> updated, found |-> TRUE, value |-> storage[key], nodes |-> << >>]
    ELSE [table |-> updated, found |-> FALSE, value |-> 0,
          nodes |-> GetClosestNodes(updated, self, key, FindCount)]

\* The capacity of a slice grown from make([]Contact, 0) by appending one
\* element at a time: the least power of two that holds its length.
RECURSIVE Pow2AtLeast(_, _)
Pow2AtLeast(n, p) == IF p >= n THEN p ELSE Pow2AtLeast(n, 2 * p)

SliceCap(length) == IF length = 0 THEN 0 ELSE Pow2AtLeast(length, 1)

RECURSIVE AppendNew(_, _)
AppendNew(shortlist, contacts) ==
    IF contacts = << >> THEN shortlist
    ELSE IF Head(contacts) \in SeqToSet(shortlist)
         THEN AppendNew(shortlist, Tail(contacts))
         ELSE AppendNew(Append(shortlist, Head(contacts)), Tail(contacts))

\* shortlist[i], shortlist[j] = shortlist[j], shortlist[i]
Swap(shortlist, i, j) ==
    [shortlist EXCEPT ![i] = shortlist[j], ![j] = shortlist[i]]

\* The inner loop of LookupState.Sort from j on: slot i takes every later
\* contact that is closer to the target than the one it holds.
RECURSIVE SortPass(_, _, _, _)
SortPass(shortlist, target, i, j) ==
    IF j > Len(shortlist) THEN shortlist
    ELSE SortPass(IF Less(Xor(shortlist[j], target), Xor(shortlist[i], target))
                  THEN Swap(shortlist, i, j)
                  ELSE shortlist,
                  target, i, j + 1)

\* The outer loop of LookupState.Sort from i on.
RECURSIVE SortFrom(_, _, _)
SortFrom(shortlist, target, i) ==
    IF i > Len(shortlist) THEN shortlist
    ELSE SortFrom(SortPass(shortlist, target, i, i + 1), target, i + 1)

\* LookupState.Sort: the exchange sort of the shortlist by distance to the
\* target.
Sort(shortlist, target) == SortFrom(shortlist, target, 1)

\* LookupState.Append leaving the shortlist as the appends left it.
LookupAppendUnsorted(shortlist, target, contacts) ==
    AppendNew(shortlist, contacts)

\* LookupState.Append: the contacts that are not yet there are appended, then
\* Sort orders the shortlist by distance to the target.
LookupAppend(shortlist, target, contacts) ==
    Sort(AppendNew(shortlist, contacts), target)

\* LookupState.PickNextBest returning the head of the shortlist as long as
\* somebody is left to ask.
PickNextBestHead(shortlist, contacted) ==
    IF \E i \in 1 .. Len(shortlist) : shortlist[i] \notin contacted
    THEN 1
    ELSE 0

\* LookupState.PickNextBest: the index of the first contact not yet
\* contacted, 0 for nil.
PickNextBest(shortlist, contacted) ==
    IF \E i \in 1 .. Len(shortlist) : shortlist[i] \notin contacted
    THEN CHOOSE i \in 1 .. Len(shortlist) :
            /\ shortlist[i] \notin contacted
            /\ \A j \in 1 .. (i - 1) : shortlist[j] \in contacted
    ELSE 0

\* *candidate after state.Append: candidate points at slot i of the array the
\* shortlist had. If Append outgrew that array the slot still holds the old
\* contact; else Sort has rearranged the very array and the slot holds
\* whatever is i-th now.
Deref(old, new, i) ==
    IF Len(new) > SliceCap(Len(old)) THEN old[i] ELSE new[i]

NewCall(op, n, pc, key, value, localCandidates) ==
    [op |-> op, node |-> n, pc |-> pc, key |-> key, value |-> value,
     Shortlist |-> LookupAppend(<< >>, key, localCandidates), Contacted |-> {},
     exit |-> FALSE, targets |-> << >>, hops |-> 0, rpcs |-> 0, after |-> NoResult,
     closestNodes |-> << >>, successCount |-> 0]

Init ==
    /\ RoutingTable = [n \in Nodes |-> EmptyTable]
    /\ closest = NoCall
    /\ InitJoinVars
    /\ InitNetVars
    /\ InitExtVars

\* main: a node starts with a bootstrap address. JoinNetwork completes the
\* handshake, in which the bootstrap node adds the joiner (HandleJoinResponse
\* and again HandlePosProof); then the joiner adds the bootstrap contact and
\* starts NodeLookup(self).
JoinNetwork(n, b) ==
    /\ running = Idle
    /\ calls > 0
    /\ n \notin joined
    /\ b \in joined
    /\ LET server == RoutingTableUpdate(RoutingTableUpdate(RoutingTable[b], b, n), b, n)
           mine == RoutingTableUpdate(RoutingTable[n], n, b)
       IN  /\ RoutingTable' = [RoutingTable EXCEPT ![b] = server, ![n] = mine]
           /\ running' = NewCall("Join", n, "lookup", n, 0, GetClosestNodes(mine, n, n, K))
    /\ joined' = joined \cup {n}
    /\ result' = NoResult
    /\ calls' = calls - 1
    /\ UNCHANGED << closest, joinVars, Storage, ReplicationTimers, extVars >>

\* Node.Store is called: NodeLookup(key) begins with the closest local contacts.
StoreCall(n, key, value) ==
    /\ running = Idle
    /\ calls > 0
    /\ n \in joined
    /\ running' = NewCall("Store", n, "lookup", key, value,
                       GetClosestNodes(RoutingTable[n], n, key, K))
    /\ result' = NoResult
    /\ UNCHANGED << RoutingTable, closest, joinVars, Storage, ReplicationTimers, joined, extVars >>
    /\ calls' = calls - 1

\* One round of the loop of NodeLookup: SendFindNode to the candidate.
LookupStep(outcome) ==
    /\ running.op \in {"Store", "Join"}
    /\ running.pc = "lookup"
    /\ ~running.exit
    /\ PickNextBest(running.Shortlist, running.Contacted) # 0
    /\ LET n == running.node
           i == PickNextBest(running.Shortlist, running.Contacted)
           candidate == running.Shortlist[i]
           h == HandleFindNode(RoutingTable[candidate], candidate, n, running.key)
           served == IF outcome = "lost" THEN RoutingTable
                     ELSE [RoutingTable EXCEPT ![candidate] = h.table]
           shortlist == LookupAppend(running.Shortlist, running.key, h.nodes)
       IN  /\ outcome # "lost" => candidate \in joined
           /\ IF outcome = "ok"
              THEN /\ RoutingTable' = [served EXCEPT ![n] =
                          RoutingTableUpdate(served[n], n, Deref(running.Shortlist, shortlist, i))]
                   /\ running' = [running EXCEPT !.Contacted = @ \cup {candidate},
                                           !.Shortlist = shortlist,
                                           !.exit = running.key \in SeqToSet(h.nodes)]
              ELSE /\ RoutingTable' = served
                   /\ running' = [running EXCEPT !.Contacted = @ \cup {candidate}]
    /\ result' = NoResult
    /\ UNCHANGED << closest, joinVars, Storage, ReplicationTimers, joined, calls, extVars >>

\* NodeLookup returning the whole shortlist.
LookupResultUncut(t) ==
    IF t.exit THEN << t.key >> ELSE t.Shortlist

\* What NodeLookup returns: the target alone after the early exit, else the
\* first K contacts of the shortlist.
LookupResult(t) ==
    IF t.exit THEN << t.key >> ELSE Truncate(t.Shortlist, K)

LookupOver(t) ==
    /\ t.pc = "lookup"
    /\ t.exit \/ PickNextBest(t.Shortlist, t.Contacted) = 0

\* main: the self-lookup of the bootstrap returns.
JoinReturn ==
    /\ running.op = "Join"
    /\ LookupOver(running)
    /\ running' = Idle
    /\ result' = [op |-> "Join", node |-> running.node]
    /\ UNCHANGED << RoutingTable, closest, joinVars, Storage, ReplicationTimers, joined, calls, extVars >>

\* Node.Store after NodeLookup: with no node found the pair is stored locally
\* and an error is returned; else the replication loop begins.
StoreLookedUp ==
    /\ running.op = "Store"
    /\ LookupOver(running)
    /\ LET n == running.node
           closestNodes == LookupResult(running)
       IN  IF Len(closestNodes) = 0
           THEN /\ Storage' = [Storage EXCEPT ![n] = StoragePut(@, running.key, running.value)]
                /\ running' = Idle
                /\ result' = [op |-> "Store", node |-> n, key |-> running.key,
                              value |-> running.value, err |-> TRUE,
                              closestNodes |-> closestNodes, sent |-> 0,
                              successCount |-> 0]
           ELSE /\ running' = [running EXCEPT !.pc = "replicate",
                                        !.closestNodes = closestNodes,
                                        !.targets = FilterSeq(closestNodes, n)]
                /\ result' = NoResult
                /\ UNCHANGED Storage
    /\ UNCHANGED << RoutingTable, closest, joinVars, ReplicationTimers, joined, calls, extVars >>

\* Node.Store, one round of the replication loop: SendStore to the next
\* contact, whose HandleStore runs unless the request is lost.
SendStoreStep(outcome) ==
    /\ running.op = "Store"
    /\ running.pc = "replicate"
    /\ running.targets # << >>
    /\ LET n == running.node
           contact == Head(running.targets)
           h == HandleStore(RoutingTable[contact], contact, Storage[contact],
                            ReplicationTimers[contact], n, running.key, running.value)
       IN  /\ outcome # "lost" => contact \in joined
           /\ IF outcome = "lost"
              THEN UNCHANGED << RoutingTable, Storage, ReplicationTimers >>
              ELSE /\ RoutingTable' = [RoutingTable EXCEPT ![contact] = h.table]
                   /\ Storage' = [Storage EXCEPT ![contact] = h.storage]
                   /\ ReplicationTimers' = [ReplicationTimers EXCEPT ![contact] = h.timers]
    /\ running' = [running EXCEPT !.targets = Tail(@), !.rpcs = @ + 1,
                                  !.successCount = IF outcome = "ok" THEN @ + 1 ELSE @]
    /\ result' = NoResult
    /\ UNCHANGED << closest, joinVars, joined, calls, extVars >>

\* Node.Store failing when no replica was acknowledged.
StoreFailedWithoutReplica(successCount) == successCount = 0

\* Node.Store after the replication loop returns nil: successCount is printed
\* and decides nothing.
StoreFailed(successCount) == FALSE

\* Node.Store after the replication loop: the local write, the timer, nil.
StoreReturn ==
    /\ running.op = "Store"
    /\ running.pc = "replicate"
    /\ running.targets = << >>
    /\ LET n == running.node IN
       /\ Storage' = [Storage EXCEPT ![n] = StoragePut(@, running.key, running.value)]
       /\ ReplicationTimers' = [ReplicationTimers EXCEPT ![n] =
                                   StartReplicationTimer(@, running.key)]
       /\ result' = [op |-> "Store", node |-> n, key |-> running.key,
                     value |-> running.value, err |-> StoreFailed(running.successCount),
                     closestNodes |-> running.closestNodes, sent |-> running.rpcs,
                     successCount |-> running.successCount]
    /\ running' = Idle
    /\ UNCHANGED << RoutingTable, closest, joinVars, joined, calls, extVars >>

\* What FindValue returned: the value, the hop count, and for the record the
\* number of RPCs it sent and the Store return, if any, that the call came
\* immediately after.
FindValueResult(n, key, found, value, hops, rpcs, after) ==
    [op |-> "FindValue", node |-> n, key |-> key, found |-> found,
     value |-> value, hops |-> hops, rpcs |-> rpcs, after |-> after]

\* The Store return of the last step, if that is what the last step was.
JustStored == IF result.op = "Store" THEN result ELSE NoResult

\* Node.FindValue is called: a local hit returns at once; with no contact in
\* the table the key is reported missing; else the iterative lookup begins.
FindValueCall(n, key) ==
    /\ running = Idle
    /\ calls > 0
    /\ n \in joined
    /\ LET localCandidates == GetClosestNodes(RoutingTable[n], n, key, FindCount) IN
       IF key \in DOMAIN Storage[n]
       THEN /\ result' = FindValueResult(n, key, TRUE, Storage[n][key], 0, 0, JustStored)
            /\ running' = Idle
       ELSE IF Len(localCandidates) = 0
       THEN /\ result' = FindValueResult(n, key, FALSE, 0, 0, 0, JustStored)
            /\ running' = Idle
       ELSE /\ result' = NoResult
            /\ running' = [NewCall("FindValue", n, "find", key, 0, localCandidates)
                           EXCEPT !.after = JustStored]
    /\ UNCHANGED << RoutingTable, closest, joinVars, Storage, ReplicationTimers, joined, extVars >>
    /\ calls' = calls - 1

\* FindValue caching the value it was sent.
FindValueCached(storage, key, value) == StoragePut(storage, key, value)

\* Node.FindValue, value found at a remote node: the local storage
\* afterwards. The value is returned and not written (the caching block is
\* commented out).
FindValueFound(storage, key, value) == storage

\* One round of the loop of FindValue: SendFindValue to the candidate.
FindValueStep(outcome) ==
    /\ running.op = "FindValue"
    /\ PickNextBest(running.Shortlist, running.Contacted) # 0
    /\ LET n == running.node
           i == PickNextBest(running.Shortlist, running.Contacted)
           candidate == running.Shortlist[i]
           h == HandleFindValue(RoutingTable[candidate], candidate,
                                Storage[candidate], n, running.key)
           served == IF outcome = "lost" THEN RoutingTable
                     ELSE [RoutingTable EXCEPT ![candidate] = h.table]
           shortlist == IF Len(h.nodes) > 0
                        THEN LookupAppend(running.Shortlist, running.key, h.nodes)
                        ELSE running.Shortlist
           asked == [running EXCEPT !.Contacted = @ \cup {candidate},
                                 !.hops = @ + 1, !.rpcs = @ + 1]
       IN  /\ outcome # "lost" => candidate \in joined
           /\ IF outcome # "ok"
              THEN /\ RoutingTable' = served
                   /\ running' = asked
                   /\ result' = NoResult
                   /\ UNCHANGED Storage
              ELSE IF h.found
              THEN /\ RoutingTable' = served
                   /\ Storage' = [Storage EXCEPT ![n] =
                                     FindValueFound(@, running.key, h.value)]
                   /\ running' = Idle
                   /\ result' = FindValueResult(n, running.key, TRUE, h.value,
                                                asked.hops, asked.rpcs, running.after)
              ELSE /\ RoutingTable' = [served EXCEPT ![n] =
                          RoutingTableUpdate(served[n], n, Deref(running.Shortlist, shortlist, i))]
                   /\ running' = [asked EXCEPT !.Shortlist = shortlist]
                   /\ result' = NoResult
                   /\ UNCHANGED Storage
    /\ UNCHANGED << closest, joinVars, ReplicationTimers, joined, calls, extVars >>

\* Node.FindValue with nobody left to ask.
FindValueReturn ==
    /\ running.op = "FindValue"
    /\ PickNextBest(running.Shortlist, running.Contacted) = 0
    /\ result' = FindValueResult(running.node, running.key, FALSE, 0, running.hops, running.rpcs,
                                 running.after)
    /\ running' = Idle
    /\ UNCHANGED << RoutingTable, closest, joinVars, Storage, ReplicationTimers, joined, calls, extVars >>

\* handlePacket, case PING: between two calls a running peer pings n.
Ping(n, sender) ==
    /\ running = Idle
    /\ n \in joined
    /\ sender \in joined \ {n}
    /\ RoutingTable' = [RoutingTable EXCEPT ![n] = HandlePing(@, n, sender)]
    /\ result' = NoResult
    /\ UNCHANGED << closest, joinVars, Storage, ReplicationTimers, joined, running, calls, extVars >>

Next ==
    \/ \E n, b \in Nodes : JoinNetwork(n, b)
    \/ \E n \in Nodes, key \in DataKeys, value \in Values : StoreCall(n, key, value)
    \/ \E outcome \in Outcomes : LookupStep(outcome)
    \/ JoinReturn
    \/ StoreLookedUp
    \/ \E outcome \in Outcomes : SendStoreStep(outcome)
    \/ StoreReturn
    \/ \E n \in Nodes, key \in DataKeys : FindValueCall(n, key)
    \/ \E outcome \in Outcomes : FindValueStep(outcome)
    \/ FindValueReturn
    \/ \E n, sender \in Nodes : Ping(n, sender)

Spec == Init /\ [][Next]_vars

\* --------------------------------------------------------------- SpecTimer
\* The replication timers of the genesis node. A timer instance is a record
\* of the ticker, the stop channel and the position of the goroutine that
\* startReplicationTimer launches for it; instances are numbered in the order
\* of their creation and timerOf is the n.ReplicationTimers map.
\*   pc = "select"   waiting in the select statement
\*        "store"    inside n.Store(k, currentValue), after NodeLookup
\*        "delete"   the key was not in storage; about to delete the entry
\*        "stopped"  returned through case <-stopChan
\*        "gone"     returned through the !exists branch
NewTimer(key) ==
    [key |-> key, tickerStopped |-> FALSE, stopClosed |-> FALSE,
     pc |-> "select", value |-> 0, found |-> FALSE]

HasTimer(tOf, key) == key \in DOMAIN tOf

MapPut(f, key, v) == [k \in (DOMAIN f) \cup {key} |-> IF k = key THEN v ELSE f[k]]

MapDelete(f, key) == [k \in (DOMAIN f) \ {key} |-> f[k]]

\* startReplicationTimer that leaves the existing timer running.
startReplicationTimerNoCancel(tOf, ws, key) ==
    [timerOf |-> MapPut(tOf, key, Len(ws) + 1),
     workers |-> Append(ws, NewTimer(key))]

\* startReplicationTimer, one critical section of TimerMutex: the timer of
\* the key's entry has its ticker stopped and its stop channel closed, then a
\* new ticker, stop channel and goroutine are created and put into the map.
startReplicationTimer(tOf, ws, key) ==
    LET stopped == IF HasTimer(tOf, key)
                   THEN [ws EXCEPT ![tOf[key]].tickerStopped = TRUE,
                                   ![tOf[key]].stopClosed = TRUE]
                   ELSE ws
    IN  [timerOf |-> MapPut(tOf, key, Len(stopped) + 1),
         workers |-> Append(stopped, NewTimer(key))]

\* The !exists branch without its delete.
DeleteTimerKept(tOf, key) == tOf

\* delete(n.ReplicationTimers, k) under TimerMutex.
DeleteTimer(tOf, key) == MapDelete(tOf, key)

\* A ticker whose Stop was not followed by any value.
TickReadyAfterStop(timer) == TRUE

\* case <-ticker.C can be taken: the ticker's channel is unbuffered in effect
\* (go 1.25 in go.mod), so no value is received once Stop has returned.
TickReady(timer) == ~timer.tickerStopped

\* Store calls in progress that found nodes and so will start a timer.
StoresInProgress ==
    Cardinality({ w \in 1 .. Len(workers) : workers[w].pc = "store" /\ workers[w].found })
      + (IF appStore # NoStore /\ appStore.found THEN 1 ELSE 0)

TimerAvailable == Len(workers) + StoresInProgress < MaxTimers

\* len(closestNodes) # 0 in Store: NodeLookup seeds its shortlist from the
\* local table and never removes from it.
NodesFound(key) == GetClosestNodes(RoutingTable[Genesis], Genesis, key, K) # << >>

InitTimer ==
    /\ RoutingTable = [n \in {Genesis} |-> EmptyTable]
    /\ closest = NoCall
    /\ InitJoinVars
    /\ InitNetVars
    /\ InitExtVars

\* An inbound STORE datagram: handlePacket runs HandleStore.
TimerHandleStore(sender, key, value) ==
    /\ TimerAvailable
    /\ LET r == HandleStore(RoutingTable[Genesis], Genesis, Storage[Genesis],
                            ReplicationTimers[Genesis], sender, key, value)
           t == startReplicationTimer(timerOf, workers, key)
       IN  /\ RoutingTable' = [RoutingTable EXCEPT ![Genesis] = r.table]
           /\ Storage' = [Storage EXCEPT ![Genesis] = r.storage]
           /\ ReplicationTimers' = [ReplicationTimers EXCEPT ![Genesis] = r.timers]
           /\ timerOf' = t.timerOf
           /\ workers' = t.workers
    /\ UNCHANGED << closest, joinVars, joined, running, result, calls, appStore, replVars, posVars, rpcVars, hsVars, lockVars >>

\* The application calls n.Store(key, value): NodeLookup.
AppStoreCall(key, value) ==
    /\ appStore = NoStore
    /\ NodesFound(key) => TimerAvailable
    /\ appStore' = [op |-> "store", key |-> key, value |-> value,
                    found |-> NodesFound(key)]
    /\ UNCHANGED << rtVars, joinVars, netVars, timerOf, workers, replVars, posVars, rpcVars, hsVars, lockVars >>

\* The rest of Store: the local write and, when nodes were found, the timer.
StoreFinish(key, value, found, ws) ==
    /\ Storage' = [Storage EXCEPT ![Genesis] = StoragePut(Storage[Genesis], key, value)]
    /\ IF found
       THEN LET t == startReplicationTimer(timerOf, ws, key) IN
            /\ timerOf' = t.timerOf
            /\ workers' = t.workers
            /\ ReplicationTimers' = [ReplicationTimers EXCEPT
                    ![Genesis] = StartReplicationTimer(ReplicationTimers[Genesis], key)]
       ELSE /\ workers' = ws
            /\ UNCHANGED << timerOf, ReplicationTimers >>

AppStoreReturn ==
    /\ appStore # NoStore
    /\ StoreFinish(appStore.key, appStore.value, appStore.found, workers)
    /\ appStore' = NoStore
    /\ UNCHANGED << rtVars, joinVars, joined, running, result, calls, replVars, posVars, rpcVars, hsVars, lockVars >>

\* case <-ticker.C: the goroutine reads the key's current value; with the
\* value it enters Store, without it it turns to the !exists branch.
WorkerTick(w) ==
    /\ workers[w].pc = "select"
    /\ TickReady(workers[w])
    /\ LET k == workers[w].key IN
       IF k \in DOMAIN Storage[Genesis]
       THEN /\ NodesFound(k) => TimerAvailable
            /\ workers' = [workers EXCEPT ![w].pc = "store",
                                          ![w].value = Storage[Genesis][k],
                                          ![w].found = NodesFound(k)]
       ELSE workers' = [workers EXCEPT ![w].pc = "delete"]
    /\ UNCHANGED << rtVars, joinVars, netVars, timerOf, appStore, replVars, posVars, rpcVars, hsVars, lockVars >>

\* The !exists branch: ticker.Stop(), delete(n.ReplicationTimers, k), return.
WorkerDelete(w) ==
    /\ workers[w].pc = "delete"
    /\ workers' = [workers EXCEPT ![w].pc = "gone", ![w].tickerStopped = TRUE]
    /\ timerOf' = DeleteTimer(timerOf, workers[w].key)
    /\ ReplicationTimers' = [ReplicationTimers EXCEPT
            ![Genesis] = ReplicationTimers[Genesis] \ {workers[w].key}]
    /\ UNCHANGED << rtVars, joinVars, Storage, joined, running, result, calls, appStore, replVars, posVars, rpcVars, hsVars, lockVars >>

\* n.Store(k, currentValue) returns to the goroutine's loop.
WorkerStoreReturn(w) ==
    /\ workers[w].pc = "store"
    /\ StoreFinish(workers[w].key, workers[w].value, workers[w].found,
                   [workers EXCEPT ![w].pc = "select"])
    /\ UNCHANGED << rtVars, joinVars, joined, running, result, calls, appStore, replVars, posVars, rpcVars, hsVars, lockVars >>

\* case <-stopChan: ticker.Stop(), return.
WorkerStop(w) ==
    /\ workers[w].pc = "select"
    /\ workers[w].stopClosed
    /\ workers' = [workers EXCEPT ![w].pc = "stopped", ![w].tickerStopped = TRUE]
    /\ UNCHANGED << rtVars, joinVars, netVars, timerOf, appStore, replVars, posVars, rpcVars, hsVars, lockVars >>

\* The key leaves n.Storage (the map is an exported field; the goroutine's
\* !exists branch is written for this).
RemoveKey(key) ==
    /\ key \in DOMAIN Storage[Genesis]
    /\ Storage' = [Storage EXCEPT ![Genesis] = MapDelete(Storage[Genesis], key)]
    /\ UNCHANGED << rtVars, joinVars, ReplicationTimers, joined, running, result,
                    calls, extVars >>

TimerIds == 1 .. MaxTimers

NextTimer ==
    \/ \E sender \in JoinPeers, key \in DataKeys, value \in Values :
            TimerHandleStore(sender, key, value)
    \/ \E key \in DataKeys, value \in Values : AppStoreCall(key, value)
    \/ AppStoreReturn
    \/ \E w \in DOMAIN workers : WorkerTick(w)
    \/ \E w \in DOMAIN workers : WorkerDelete(w)
    \/ \E w \in DOMAIN workers : WorkerStoreReturn(w)
    \/ \E w \in DOMAIN workers : WorkerStop(w)
    \/ \E key \in DataKeys : RemoveKey(key)

SpecTimer == InitTimer /\ [][NextTimer]_vars

\* The Go scheduler runs every runnable goroutine, and every RPC of Store
\* returns within its timeout: a goroutine that can take its stop case, finish
\* its Store or finish its !exists branch does so.
TimerFairness ==
    \A w \in TimerIds :
        /\ WF_vars(w \in DOMAIN workers /\ WorkerStop(w))
        /\ WF_vars(w \in DOMAIN workers /\ WorkerStoreReturn(w))
        /\ WF_vars(w \in DOMAIN workers /\ WorkerDelete(w))

SpecTimerLive == SpecTimer /\ TimerFairness

\* ---------------------------------------------------------------- SpecRepl
\* The overlay of Spec with one more node, a network that delivers every
\* datagram, and the replication timers ticking: the goroutine of a timer
\* calls n.Store(k, currentValue) like any other caller of Store.
ReplNodes == Nodes \cup {NewNodeId}

\* The nodes of NodeIds hold the key with a timer each, the new node has
\* joined, and it shares a longer prefix with the key than one of the holders.
Republishable(d, key) ==
    /\ ReplNodes \subseteq joined
    /\ \A h \in Nodes : key \in DOMAIN Storage[h] /\ key \in ReplicationTimers[h]
    /\ \E c \in Nodes : PrefixLen(d, key) > PrefixLen(c, key)

InitRepl ==
    /\ RoutingTable = [n \in ReplNodes |-> EmptyTable]
    /\ closest = NoCall
    /\ InitJoinVars
    /\ Storage = [n \in ReplNodes |-> EmptyStorage]
    /\ ReplicationTimers = [n \in ReplNodes |-> {}]
    /\ joined = {Genesis}
    /\ running = Idle
    /\ result = NoResult
    /\ calls = MaxReplCalls
    /\ InitExtVars

\* case <-ticker.C of the goroutine of n's timer for the key: with the key in
\* storage Store begins with the current value, else the timer is deleted.
TimerTick(n, key) ==
    /\ running = Idle
    /\ n \in joined
    /\ key \in ReplicationTimers[n]
    /\ IF key \in DOMAIN Storage[n]
       THEN /\ running' = NewCall("Store", n, "lookup", key, Storage[n][key],
                               GetClosestNodes(RoutingTable[n], n, key, K))
            /\ ticked' = [node |-> n, key |-> key, calls |-> calls,
                          premise |-> Republishable(NewNodeId, key)]
            /\ UNCHANGED ReplicationTimers
       ELSE /\ ReplicationTimers' = [ReplicationTimers EXCEPT ![n] = @ \ {key}]
            /\ UNCHANGED << running, ticked >>
    /\ result' = NoResult
    /\ UNCHANGED << RoutingTable, closest, joinVars, Storage, joined, calls, timerVars, posVars, rpcVars, hsVars, lockVars >>

Reliable == "ok"

NextRepl ==
    \/ \E n, b \in ReplNodes : JoinNetwork(n, b)
    \/ \E n \in ReplNodes, key \in DataKeys, value \in Values : StoreCall(n, key, value)
    \/ LookupStep(Reliable)
    \/ JoinReturn
    \/ StoreLookedUp
    \/ SendStoreStep(Reliable)
    \/ StoreReturn
    \/ \E n \in ReplNodes, key \in DataKeys : TimerTick(n, key)

SpecRepl == InitRepl /\ [][NextRepl]_vars

\* Every ticker fires once per period, and a call in progress goes on: each
\* RPC returns, so the loops of NodeLookup and Store advance.
\* The enabling condition of LookupStep(Reliable).
LookupCanStep ==
    /\ running.op \in {"Store", "Join"}
    /\ running.pc = "lookup"
    /\ ~running.exit
    /\ PickNextBest(running.Shortlist, running.Contacted) # 0
    /\ running.Shortlist[PickNextBest(running.Shortlist, running.Contacted)] \in joined

\* Weak fairness of LookupStep(Reliable), with its enabling condition
\* written out.
LookupFairness ==
    []<>(~LookupCanStep) \/ []<><<LookupStep(Reliable)>>_vars

\* The enabling condition of a tick.
TickCanFire ==
    /\ running = Idle
    /\ \E n \in joined, key \in DataKeys : key \in ReplicationTimers[n]

\* Strong fairness of the ticks, with the enabling condition written out:
\* a ticker fires whether or not other calls keep the node busy in between.
TickFairness ==
    <>[](~TickCanFire)
      \/ []<><<\E n \in ReplNodes, key \in DataKeys : TimerTick(n, key)>>_vars

ReplFairness ==
    /\ TickFairness
    /\ LookupFairness
    /\ WF_vars(JoinReturn)
    /\ WF_vars(StoreLookedUp)
    /\ WF_vars(SendStoreStep(Reliable))
    /\ WF_vars(StoreReturn)

SpecReplLive == SpecRepl /\ ReplFairness

\* ------------------------------------------------------------- SpecReliable
\* The overlay of Spec on a network that loses no datagram: every request is
\* handled and every response processed.
NextReliable ==
    \/ \E n, b \in Nodes : JoinNetwork(n, b)
    \/ \E n \in Nodes, key \in DataKeys, value \in Values : StoreCall(n, key, value)
    \/ LookupStep(Reliable)
    \/ JoinReturn
    \/ StoreLookedUp
    \/ SendStoreStep(Reliable)
    \/ StoreReturn
    \/ \E n \in Nodes, key \in DataKeys : FindValueCall(n, key)
    \/ FindValueStep(Reliable)
    \/ FindValueReturn

SpecReliable == Init /\ [][NextReliable]_vars

\* ------------------------------------------------------------------ SpecPos
\* The prefix Proof of Space of one node: plot generation by external merge
\* sort, the search of the plot for a challenge prefix, and VerifyProof on
\* arbitrary proofs. A data directory belongs to one node identity.
\*
\* A string is a sequence of tokens: the 64 hex digits of a peer id, a
\* decimal number, a run of characters that is neither, or the underscore.
HexPart(peerID) == [kind |-> "hex", v |-> peerID]
DecPart(i) == [kind |-> "dec", v |-> i]
JunkPart(j) == [kind |-> "junk", v |-> j]
Underscore == [kind |-> "_", v |-> 0]

\* fmt.Sprintf("%064x", peerID)
PeerIDHex(peerID) == << HexPart(peerID) >>

\* fmt.Sprintf("%064x_%d", peerID, index)
RawValue(peerID, index) == << HexPart(peerID), Underscore, DecPart(index) >>

RECURSIVE Split(_)
\* strings.Split(s, "_")
Split(str) ==
    LET i == IndexOf(str, Underscore) IN
    IF i = 0 THEN << str >>
    ELSE << SubSeq(str, 1, i - 1) >> \o Split(SubSeq(str, i + 1, Len(str)))

Hashes == 0 .. (2 ^ HashBits - 1)
Prefixes == 0 .. (2 ^ PosPrefixBits - 1)

TokenCode(t) ==
    CASE t.kind = "hex" -> 1 + t.v
      [] t.kind = "dec" -> 17 + t.v
      [] t.kind = "junk" -> 53 + t.v
      [] OTHER -> 97

RECURSIVE Absorb(_, _)
Absorb(h, str) ==
    IF str = << >> THEN h
    ELSE Absorb((h * 31 + TokenCode(Head(str))) % 251, Tail(str))

\* sha256.Sum256: a fixed function of the whole string into HashBits bits.
Sha256(str) == ((Absorb(5, str) * 37 + 11) % 251) % (2 ^ HashBits)

\* compareHashes(a, b) < 0
HashLess(a, b) == a < b

RECURSIVE InsertEntry(_, _)
InsertEntry(sorted, e) ==
    IF sorted = << >> THEN << e >>
    ELSE IF HashLess(e.Hash, Head(sorted).Hash) THEN << e >> \o sorted
    ELSE << Head(sorted) >> \o InsertEntry(Tail(sorted), e)

RECURSIVE SortEntries(_)
\* sort.Slice(chunk, ...) by compareHashes
SortEntries(chunk) ==
    IF chunk = << >> THEN << >>
    ELSE InsertEntry(SortEntries(Tail(chunk)), Head(chunk))

NumChunks == (PosNumEntries + ChunkSize - 1) \div ChunkSize

\* One round of step 1 of GeneratePlot: the entries startIdx .. endIdx-1,
\* sorted.
GenerateChunk(peerID, chunkIdx) ==
    LET startIdx == chunkIdx * ChunkSize
        endIdx == IF startIdx + ChunkSize > PosNumEntries THEN PosNumEntries
                  ELSE startIdx + ChunkSize
        chunk == [j \in 1 .. (endIdx - startIdx) |->
                    [Index |-> startIdx + j - 1,
                     Hash |-> Sha256(RawValue(peerID, startIdx + j - 1))]]
    IN  SortEntries(chunk)

RECURSIVE ConcatChunks(_)
\* The chunk files written one after the other.
ConcatChunks(readers) ==
    IF readers = << >> THEN << >> ELSE Head(readers) \o ConcatChunks(Tail(readers))

RECURSIVE MergeSortedChunks(_)
\* mergeSortedChunks: the reader with the smallest buffered hash, the first
\* such reader on a tie, gives the next entry.
MergeSortedChunks(readers) ==
    LET hasMore == { i \in 1 .. Len(readers) : readers[i] # << >> } IN
    IF hasMore = {} THEN << >>
    ELSE LET minIdx == CHOOSE i \in hasMore : \A j \in hasMore :
                          /\ ~HashLess(Head(readers[j]).Hash, Head(readers[i]).Hash)
                          /\ Head(readers[j]).Hash = Head(readers[i]).Hash => i <= j
         IN  << Head(readers[minIdx]) >>
               \o MergeSortedChunks([readers EXCEPT ![minIdx] = Tail(@)])

\* The first prefixBits bits of a hash.
HashPrefix(hash, prefixBits) == hash \div (2 ^ (HashBits - prefixBits))

\* comparePrefixToHash
ComparePrefixToHash(prefix, hash, prefixBits) ==
    IF prefix < HashPrefix(hash, prefixBits) THEN -1
    ELSE IF prefix > HashPrefix(hash, prefixBits) THEN 1
    ELSE 0

\* hashMatchesPrefix: bit by bit, most significant bit first.
HashMatchesPrefix(hash, prefixBits, prefix) ==
    \A i \in 0 .. (prefixBits - 1) :
        (hash \div (2 ^ (HashBits - 1 - i))) % 2
            = (prefix \div (2 ^ (prefixBits - 1 - i))) % 2

RECURSIVE LowerBound(_, _, _, _, _)
\* The first loop of SearchMatchingHash; positions count from 0.
LowerBound(entries, prefixBits, prefix, left, right) ==
    IF left < right
    THEN LET mid == (left + right) \div 2 IN
         IF ComparePrefixToHash(prefix, entries[mid + 1].Hash, prefixBits) = 1
         THEN LowerBound(entries, prefixBits, prefix, mid + 1, right)
         ELSE LowerBound(entries, prefixBits, prefix, left, mid)
    ELSE left

NoProof == [found |-> FALSE]

PlotProof(peerID, entry) ==
    [found |-> TRUE,
     proof |-> [RawValue |-> RawValue(peerID, entry.Index),
                Index |-> entry.Index, Hash |-> entry.Hash]]

RECURSIVE ScanForward(_, _, _, _, _)
\* The second loop of SearchMatchingHash.
ScanForward(entries, peerID, prefixBits, prefix, i) ==
    IF i >= PosNumEntries THEN NoProof
    ELSE LET entry == entries[i + 1]
             cmp == ComparePrefixToHash(prefix, entry.Hash, prefixBits)
         IN  IF cmp = -1 THEN NoProof
             ELSE IF cmp = 0 /\ HashMatchesPrefix(entry.Hash, prefixBits, prefix)
             THEN PlotProof(peerID, entry)
             ELSE ScanForward(entries, peerID, prefixBits, prefix, i + 1)

\* SearchMatchingHash returning the entry at the lower bound, unscanned.
SearchMatchingHashUnscanned(entries, peerID, prefixBits, prefix) ==
    LET left == LowerBound(entries, prefixBits, prefix, 0, PosNumEntries) IN
    IF left >= PosNumEntries THEN NoProof ELSE PlotProof(peerID, entries[left + 1])

\* Plot.SearchMatchingHash
SearchMatchingHash(entries, peerID, prefixBits, prefix) ==
    ScanForward(entries, peerID, prefixBits, prefix,
                LowerBound(entries, prefixBits, prefix, 0, PosNumEntries))

\* VerifyProof without the comparison of the hash with SHA256(RawValue).
PlotVerifyProofNoHash(peerID, challenge, proof) ==
    LET parts == Split(proof.RawValue) IN
    IF Len(parts) # 2 THEN FALSE
    ELSE IF parts[1] # PeerIDHex(peerID) THEN FALSE
    ELSE HashMatchesPrefix(proof.Hash, challenge.PrefixBits, challenge.Prefix)

\* VerifyProof of the prefix Proof of Space.
PlotVerifyProof(peerID, challenge, proof) ==
    LET parts == Split(proof.RawValue) IN
    IF Len(parts) # 2 THEN FALSE
    ELSE IF parts[1] # PeerIDHex(peerID) THEN FALSE
    ELSE IF Sha256(proof.RawValue) # proof.Hash THEN FALSE
    ELSE HashMatchesPrefix(proof.Hash, challenge.PrefixBits, challenge.Prefix)

\* GenerateChallenge: PosPrefixBits random bits.
Challenge(prefix) == [PrefixBits |-> PosPrefixBits, Prefix |-> prefix]

PosPeers == JoinPeers

\* The strings offered to VerifyProof as RawValue.
RawValues ==
    UNION { { RawValue(q, i) : i \in 0 .. (PosNumEntries - 1) }
              \cup { << HexPart(q), Underscore, JunkPart(j) >> : j \in 1 .. NumJunk }
              \cup { << HexPart(q), Underscore >>, << HexPart(q) >>,
                     << HexPart(q), Underscore, DecPart(0), Underscore, DecPart(0) >>,
                     << JunkPart(1), Underscore, DecPart(0) >> }
            : q \in PosPeers }

Proofs == [RawValue : RawValues, Index : {0}, Hash : Hashes]

\* The arguments of a call of VerifyProof.
VerifyInputs == [peerID : PosPeers, prefix : Prefixes, proof : Proofs]

InitPos ==
    /\ RoutingTable = [n \in {Genesis} |-> EmptyTable]
    /\ closest = NoCall
    /\ InitJoinVars
    /\ InitNetVars
    /\ InitTimerVars
    /\ InitReplVars
    /\ InitRpcVars
    /\ InitHsVars
    /\ InitLockVars
    /\ plotPeer \in PosPeers
    /\ posInput \in VerifyInputs
    /\ InitPlotVars

PosFrame == UNCHANGED << rtVars, joinVars, netVars, timerVars, replVars, rpcVars, hsVars, lockVars,
                      posInput >>

\* GeneratePlot, step 1, one chunk: generated, sorted, saved to a temp file.
GenerateChunkStep ==
    /\ ~plotFile.exists
    /\ Len(tempFiles) < NumChunks
    /\ tempFiles' = Append(tempFiles, GenerateChunk(plotPeer, Len(tempFiles)))
    /\ UNCHANGED << plotPeer, plotFile, posResult >>
    /\ PosFrame

\* GeneratePlot, step 2: the merge into the plot file; temp files removed.
MergeStep ==
    /\ ~plotFile.exists
    /\ Len(tempFiles) = NumChunks
    /\ plotFile' = [exists |-> TRUE, entries |-> MergeSortedChunks(tempFiles)]
    /\ tempFiles' = << >>
    /\ posResult' = [op |-> "GeneratePlot", generated |-> TRUE]
    /\ UNCHANGED plotPeer
    /\ PosFrame

\* GeneratePlot when the plot file exists: LoadPlot checks its size.
LoadPlotStep ==
    /\ plotFile.exists
    /\ posResult' = [op |-> "GeneratePlot", generated |-> FALSE,
                     err |-> Len(plotFile.entries) # PosNumEntries]
    /\ UNCHANGED << plotPeer, tempFiles, plotFile >>
    /\ PosFrame

\* plot.SearchMatchingHash(challenge.PrefixBits, challenge.Prefix)
Search(prefix) ==
    /\ plotFile.exists
    /\ posResult' = [op |-> "Search", prefix |-> prefix,
                     res |-> SearchMatchingHash(plotFile.entries, plotPeer,
                                                PosPrefixBits, prefix)]
    /\ UNCHANGED << plotPeer, tempFiles, plotFile >>
    /\ PosFrame

\* VerifyProof(peerID, challenge, proof) on the arguments drawn.
Verify ==
    /\ posResult' = [op |-> "Verify",
                     ok |-> PlotVerifyProof(posInput.peerID, Challenge(posInput.prefix),
                                            posInput.proof)]
    /\ UNCHANGED << plotPeer, tempFiles, plotFile >>
    /\ PosFrame

NextPos ==
    \/ GenerateChunkStep
    \/ MergeStep
    \/ LoadPlotStep
    \/ \E prefix \in Prefixes : Search(prefix)
    \/ Verify

SpecPos == InitPos /\ [][NextPos]_vars

\* ---------------------------------------------------------------- SpecPrefix
\* The prefix comparison of the Proof of Space on bytes: comparePrefixToHash,
\* hashMatchesPrefix and SearchMatchingHash called with any prefix length and
\* any uint8 number of prefix bits on a plot sorted by hash. A hash is written
\* as its leading bytes; its remaining bytes, up to HashSize, are zero. An
\* index outside a slice panics.
HashSize == 32

\* The values bytes are drawn from: 16 and 23 share their high five bits.
ByteSamples == {0, 16, 23}
\* The values of prefixBits: 250 + 7 does not fit a uint8.
PrefixBitsSamples == {0, 4, 6, 8, 12, 16, 250}

LeadHashes == { << a, b >> : a, b \in ByteSamples }

\* hash[i] of a [32]byte array, i counted from 0.
HashByte(hash, i) == IF i < Len(hash) THEN hash[i + 1] ELSE 0

Zeros(n) == [i \in 1 .. n |-> 0]

\* The prefixes of a challenge payload: zero to two bytes, or a full
\* HashSize bytes.
PrefixSamples ==
    { << >> } \cup { << a >> : a \in ByteSamples } \cup LeadHashes
        \cup { h \o Zeros(HashSize - Len(h)) : h \in LeadHashes }

RECURSIVE BitAnd(_, _, _)
\* a & b on n bits.
BitAnd(a, b, n) ==
    IF n = 0 THEN 0
    ELSE (a % 2) * (b % 2) + 2 * BitAnd(a \div 2, b \div 2, n - 1)

\* The last prefix byte compared whole.
LastByteWhole(relevantBits) == 255

\* byte(0xFF << (8 - relevantBits))
LastByteMask(relevantBits) == (255 * 2 ^ (8 - relevantBits)) % 256

RECURSIVE ComparePrefixFrom(_, _, _, _)
\* The loop of comparePrefixToHash from byte i on; prefixBytes is a uint8.
ComparePrefixFrom(prefix, hash, prefixBits, i) ==
    LET prefixBytes == ((prefixBits + 7) % 256) \div 8 IN
    IF i >= prefixBytes THEN 0
    ELSE LET prefixByte == IF i < Len(prefix) THEN prefix[i + 1] ELSE 0 IN
         IF i = prefixBytes - 1 /\ prefixBits % 8 # 0
         THEN LET mask == LastByteMask(prefixBits % 8)
                  maskedPrefix == BitAnd(prefixByte, mask, 8)
                  hashByte == BitAnd(HashByte(hash, i), mask, 8)
              IN  IF maskedPrefix < hashByte THEN -1
                  ELSE IF maskedPrefix > hashByte THEN 1
                  ELSE ComparePrefixFrom(prefix, hash, prefixBits, i + 1)
         ELSE IF prefixByte < HashByte(hash, i) THEN -1
              ELSE IF prefixByte > HashByte(hash, i) THEN 1
              ELSE ComparePrefixFrom(prefix, hash, prefixBits, i + 1)

\* comparePrefixToHash(prefix, hash, prefixBits)
comparePrefixToHash(prefix, hash, prefixBits) ==
    ComparePrefixFrom(prefix, hash, prefixBits, 0)

Matches == [panics |-> FALSE, ok |-> TRUE]
Mismatch == [panics |-> FALSE, ok |-> FALSE]
Panics == [panics |-> TRUE, ok |-> FALSE]

RECURSIVE MatchFrom(_, _, _, _)
\* The loop of hashMatchesPrefix from bit i on: prefix[byteIndex] is read
\* without a test of the length of prefix.
MatchFrom(hash, prefixBits, prefix, i) ==
    IF i >= prefixBits THEN Matches
    ELSE LET byteIndex == i \div 8
             bitIndex == 7 - (i % 8)
         IN  IF byteIndex >= Len(prefix) THEN Panics
             ELSE IF (HashByte(hash, byteIndex) \div 2 ^ bitIndex) % 2
                        # (prefix[byteIndex + 1] \div 2 ^ bitIndex) % 2
             THEN Mismatch
             ELSE MatchFrom(hash, prefixBits, prefix, i + 1)

\* hashMatchesPrefix(hash, prefixBits, prefix)
hashMatchesPrefix(hash, prefixBits, prefix) == MatchFrom(hash, prefixBits, prefix, 0)

RECURSIVE compareHashesFrom(_, _, _)
compareHashesFrom(a, b, i) ==
    IF i >= HashSize THEN 0
    ELSE IF HashByte(a, i) < HashByte(b, i) THEN -1
    ELSE IF HashByte(a, i) > HashByte(b, i) THEN 1
    ELSE compareHashesFrom(a, b, i + 1)

\* compareHashes(a, b)
compareHashes(a, b) == compareHashesFrom(a, b, 0)

RECURSIVE PlotUpperBound(_, _, _, _, _)
\* The first loop of SearchMatchingHash moving right on an equal prefix too.
PlotUpperBound(entries, prefixBits, prefix, left, right) ==
    IF left < right
    THEN LET mid == (left + right) \div 2 IN
         IF comparePrefixToHash(prefix, entries[mid + 1].Hash, prefixBits) # -1
         THEN PlotUpperBound(entries, prefixBits, prefix, mid + 1, right)
         ELSE PlotUpperBound(entries, prefixBits, prefix, left, mid)
    ELSE left

RECURSIVE PlotLowerBound(_, _, _, _, _)
\* The first loop of SearchMatchingHash on bytes; positions count from 0.
PlotLowerBound(entries, prefixBits, prefix, left, right) ==
    IF left < right
    THEN LET mid == (left + right) \div 2 IN
         IF comparePrefixToHash(prefix, entries[mid + 1].Hash, prefixBits) = 1
         THEN PlotLowerBound(entries, prefixBits, prefix, mid + 1, right)
         ELSE PlotLowerBound(entries, prefixBits, prefix, left, mid)
    ELSE left

SearchPanic == [outcome |-> "panic"]
SearchNoProof == [outcome |-> "NoProof"]

RECURSIVE PlotScanForward(_, _, _, _)
\* The second loop of SearchMatchingHash on bytes.
PlotScanForward(entries, prefixBits, prefix, i) ==
    IF i >= Len(entries) THEN SearchNoProof
    ELSE LET entry == entries[i + 1]
             cmp == comparePrefixToHash(prefix, entry.Hash, prefixBits)
         IN  IF cmp = -1 THEN SearchNoProof
             ELSE IF cmp = 0
             THEN LET m == hashMatchesPrefix(entry.Hash, prefixBits, prefix) IN
                  IF m.panics THEN SearchPanic
                  ELSE IF m.ok
                  THEN [outcome |-> "proof", Index |-> entry.Index, Hash |-> entry.Hash]
                  ELSE PlotScanForward(entries, prefixBits, prefix, i + 1)
             ELSE PlotScanForward(entries, prefixBits, prefix, i + 1)

\* Plot.SearchMatchingHash(prefixBits, prefix) on bytes.
PlotSearchMatchingHash(entries, prefixBits, prefix) ==
    PlotScanForward(entries, prefixBits, prefix,
                    PlotLowerBound(entries, prefixBits, prefix, 0, Len(entries)))

\* The plot files of PosNumEntries entries with distinct hashes, in ascending
\* order of hash.
SortedPlots ==
    { [i \in 1 .. PosNumEntries |-> [Index |-> i - 1, Hash |-> p[i]]] :
        p \in { q \in [1 .. PosNumEntries -> LeadHashes] :
                  \A i \in 1 .. (PosNumEntries - 1) :
                      compareHashes(q[i], q[i + 1]) = -1 } }

PrefixInputs == [prefixBits : PrefixBitsSamples, prefix : PrefixSamples]

InitPrefix ==
    /\ RoutingTable = [n \in {Genesis} |-> EmptyTable]
    /\ closest = NoCall
    /\ InitJoinVars
    /\ InitNetVars
    /\ InitTimerVars
    /\ InitReplVars
    /\ InitRpcVars
    /\ InitHsVars
    /\ InitLockVars
    /\ plotPeer = Genesis
    /\ tempFiles = << >>
    /\ posResult = NoPosResult
    /\ posInput \in PrefixInputs
    /\ \E entries \in SortedPlots : plotFile = [exists |-> TRUE, entries |-> entries]

\* comparePrefixToHash and hashMatchesPrefix on the hash of one plot entry.
PrefixCompare(i) ==
    /\ posResult' = [op |-> "Compare", hash |-> plotFile.entries[i].Hash,
                     cmp |-> comparePrefixToHash(posInput.prefix,
                                                 plotFile.entries[i].Hash,
                                                 posInput.prefixBits),
                     match |-> hashMatchesPrefix(plotFile.entries[i].Hash,
                                                 posInput.prefixBits, posInput.prefix)]
    /\ UNCHANGED << plotPeer, tempFiles, plotFile >>
    /\ PosFrame

\* plot.SearchMatchingHash(prefixBits, prefix) on the challenge received.
PrefixSearch ==
    /\ posResult' = [op |-> "Search",
                     res |-> PlotSearchMatchingHash(plotFile.entries,
                                                    posInput.prefixBits, posInput.prefix)]
    /\ UNCHANGED << plotPeer, tempFiles, plotFile >>
    /\ PosFrame

NextPrefix ==
    \/ \E i \in 1 .. PosNumEntries : PrefixCompare(i)
    \/ PrefixSearch

SpecPrefix == InitPrefix /\ [][NextPrefix]_vars

\* ------------------------------------------------------------------ SpecRpc
\* The request/response correlation of one node's Network: Send* reqs made
\* by concurrent goroutines, the clock that names them, and handlePacket on
\* inbound responses of any rpc id (answers, duplicates, late or stray).
RpcIds == 0 .. MaxNanos

\* generateRPCID: "rpc-" and the decimal reading of the clock.
generateRPCID(t) == << "rpc-", t >>

\* respChan := make(chan Message, 1)
ChannelCap == 1

\* A message of a response type; its payload plays no part in its routing.
Response(rpcID) == [type |-> "response", RPCID |-> rpcID]

NewRpc(rpcID) == [RPCID |-> rpcID, chan |-> << >>, pc |-> "waiting",
                  resp |-> NoResponse, received |-> 0]

\* handlePacket looking up any registered channel, whatever its rpc id.
LookupAnyChannel(channels, msg) ==
    IF DOMAIN channels # {}
    THEN channels[CHOOSE id \in DOMAIN channels : TRUE]
    ELSE 0

\* handlePacket, the isResponse branch under the read lock:
\* ch, exists := s.ResponseChannels[msg.RPCID]; 0 stands for !exists.
LookupChannel(channels, msg) ==
    IF msg.RPCID \in DOMAIN channels THEN channels[msg.RPCID] ELSE 0

\* select { case ch <- msg: default: }: the channel takes the message if it
\* has room, otherwise the message is dropped.
SendToChannel(reqs, i, msg) ==
    IF Len(reqs[i].chan) < ChannelCap
    THEN [requests |-> [reqs EXCEPT ![i].chan = Append(@, msg)], outcome |-> "delivered"]
    ELSE [requests |-> reqs, outcome |-> "full"]

\* A handlePacket goroutine holds a channel it has looked up and not yet
\* sent to.
Handling == lastPacket.type = "response" /\ lastPacket.outcome = "looked"

InitRpc ==
    /\ RoutingTable = [n \in {Genesis} |-> EmptyTable]
    /\ closest = NoCall
    /\ InitJoinVars
    /\ InitNetVars
    /\ InitExtVars

RpcFrame == UNCHANGED << closest, joinVars, netVars, timerVars, replVars, posVars, hsVars,
                        lockVars >>

\* The clock advances.
ClockTick ==
    /\ nanos < MaxNanos
    /\ nanos' = nanos + 1
    /\ UNCHANGED << RoutingTable, ResponseChannels, requests, lastPacket >>
    /\ RpcFrame

\* SendFindNode / SendStore / SendFindValue up to the select: the rpc id is
\* generated, a new channel is registered under it, the request is sent.
SendRequest ==
    /\ Len(requests) < MaxRpcs
    /\ LET rpcID == generateRPCID(nanos) IN
       /\ requests' = Append(requests, NewRpc(rpcID))
       /\ ResponseChannels' = MapPut(ResponseChannels, rpcID, Len(requests) + 1)
    /\ UNCHANGED << RoutingTable, nanos, lastPacket >>
    /\ RpcFrame

\* case resp := <-respChan
TakeResponse(i) ==
    /\ requests[i].pc = "waiting"
    /\ requests[i].chan # << >>
    /\ requests' = [requests EXCEPT ![i].pc = "got", ![i].resp = Head(requests[i].chan),
                            ![i].chan = Tail(@), ![i].received = @ + 1]
    /\ UNCHANGED << RoutingTable, nanos, ResponseChannels, lastPacket >>
    /\ RpcFrame

\* case <-time.After(5 * time.Second)
Timeout(i) ==
    /\ requests[i].pc = "waiting"
    /\ requests' = [requests EXCEPT ![i].pc = "timeout"]
    /\ UNCHANGED << RoutingTable, nanos, ResponseChannels, lastPacket >>
    /\ RpcFrame

\* The return of the call: the deferred UnregisterResponseChannel(rpcID).
RpcReturn(i) ==
    /\ requests[i].pc \in {"got", "timeout"}
    /\ requests' = [requests EXCEPT ![i].pc = "returned"]
    /\ ResponseChannels' = MapDelete(ResponseChannels, requests[i].RPCID)
    /\ UNCHANGED << RoutingTable, nanos, lastPacket >>
    /\ RpcFrame

\* handlePacket on a datagram of a response type, up to the release of the
\* read lock. Without a registered channel the handler logs and returns.
ReceiveResponse(rpcID) ==
    /\ ~Handling
    /\ LET msg == Response(rpcID)
           ch == LookupChannel(ResponseChannels, msg)
       IN  lastPacket' = [type |-> "response", RPCID |-> rpcID, ch |-> ch,
                          outcome |-> IF ch = 0 THEN "none" ELSE "looked"]
    /\ UNCHANGED << RoutingTable, nanos, ResponseChannels, requests >>
    /\ RpcFrame

\* handlePacket after the lookup: the non-blocking send, then return.
DeliverResponse ==
    /\ Handling
    /\ LET msg == Response(lastPacket.RPCID)
           r == SendToChannel(requests, lastPacket.ch, msg)
       IN  /\ requests' = r.requests
           /\ lastPacket' = [lastPacket EXCEPT !.outcome = r.outcome]
    /\ UNCHANGED << RoutingTable, nanos, ResponseChannels >>
    /\ RpcFrame

\* handlePacket on a PING request: the handler runs.
ReceivePing(sender) ==
    /\ RoutingTable' = [RoutingTable EXCEPT
            ![Genesis] = HandlePing(RoutingTable[Genesis], Genesis, sender)]
    /\ UNCHANGED << nanos, ResponseChannels, requests, lastPacket >>
    /\ RpcFrame

NextRpc ==
    \/ ClockTick
    \/ SendRequest
    \/ \E i \in DOMAIN requests : TakeResponse(i)
    \/ \E i \in DOMAIN requests : Timeout(i)
    \/ \E i \in DOMAIN requests : RpcReturn(i)
    \/ \E t \in RpcIds : ReceiveResponse(generateRPCID(t))
    \/ DeliverResponse
    \/ \E sender \in JoinPeers : ReceivePing(sender)

SpecRpc == InitRpc /\ [][NextRpc]_vars

\* ------------------------------------------------------------ SpecJoinClient
\* Node.JoinNetwork at the joining node: three requests, each awaited on its
\* own one-slot response channel for at most HandshakeTimeout seconds. The
\* responses that arrive are of any response type and for any of the call's
\* rpc ids. The rpc ids are fresh random strings; the model names them by the
\* step that draws them.
Joiner == NodeIds[3]

JoinReqMsg ==
    [type |-> "JOIN_REQ", rpc |-> 1, sender |-> Joiner,
     payload |-> [PeerID |-> Joiner,
                  PublicKey |-> [parses |-> TRUE, key |-> KeyOf(Joiner)]]]

\* Step 3: the nonce of the challenge signed with the node's private key.
JoinResMsg(challengeMsg) ==
    [type |-> "JOIN_RES", rpc |-> 2, sender |-> Joiner,
     payload |-> [Signature |-> SignMessage(KeyOf(Joiner), challengeMsg.Nonce)]]

\* Node.GeneratePosProof: the proof for the challenge from the node's own
\* plot; the payload repeats the challenge's value and index.
GeneratePosProof(posMsg) ==
    [ChallengeValue |-> posMsg.ChallengeValue, StartIndex |-> posMsg.StartIndex,
     ProofChain |-> [kind |-> "sound", owner |-> Joiner, index |-> posMsg.StartIndex]]

PosProofMsg(posMsg) ==
    [type |-> "POS_PROOF", rpc |-> 3, sender |-> Joiner,
     payload |-> GeneratePosProof(posMsg)]

JoinChallengeMsg(rpc, sender, nonce) ==
    [type |-> "JOIN_CHALLENGE", rpc |-> rpc, sender |-> sender, Success |-> FALSE,
     Nonce |-> nonce]

PosChallengeMsg(rpc, sender, value, index) ==
    [type |-> "POS_CHALLENGE", rpc |-> rpc, sender |-> sender, Success |-> FALSE,
     ChallengeValue |-> value, StartIndex |-> index]

JoinAckMsg(rpc, sender, success) ==
    [type |-> "JOIN_ACK", rpc |-> rpc, sender |-> sender, Success |-> success]

PingResMsg(rpc, sender) ==
    [type |-> "PING_RES", rpc |-> rpc, sender |-> sender, Success |-> FALSE]

\* The response channel that the select of a position reads.
Awaited(pc) ==
    CASE pc = "awaitChallenge" -> 1
      [] pc = "awaitPos" -> 2
      [] pc = "awaitAck" -> 3
      [] OTHER -> 0

Awaiting(pc) == Awaited(pc) # 0

\* JoinNetwork on a message with the final select accepting any type.
JoinOnMessageAnyAck(pc, msg, sent, proved) ==
    CASE pc = "awaitChallenge" ->
            IF msg.type # "JOIN_CHALLENGE" THEN "protocol"
            ELSE IF ~sent THEN "senderr" ELSE "continue"
      [] pc = "awaitPos" ->
            IF msg.type = "JOIN_ACK"
            THEN (IF msg.Success THEN "ok" ELSE "rejected")
            ELSE IF msg.type # "POS_CHALLENGE" THEN "protocol"
            ELSE IF ~proved THEN "posfail"
            ELSE IF ~sent THEN "senderr" ELSE "continue"
      [] pc = "awaitAck" ->
            IF msg.Success THEN "ok" ELSE "rejected"

\* What JoinNetwork does with the message its select took: it goes on to the
\* next step ("continue") or returns. sent: SendMessage of the next request
\* returned no error; proved: GeneratePosProof returned no error.
JoinOnMessage(pc, msg, sent, proved) ==
    CASE pc = "awaitChallenge" ->
            IF msg.type # "JOIN_CHALLENGE" THEN "protocol"
            ELSE IF ~sent THEN "senderr" ELSE "continue"
      [] pc = "awaitPos" ->
            IF msg.type = "JOIN_ACK"
            THEN (IF msg.Success THEN "ok" ELSE "rejected")
            ELSE IF msg.type # "POS_CHALLENGE" THEN "protocol"
            ELSE IF ~proved THEN "posfail"
            ELSE IF ~sent THEN "senderr" ELSE "continue"
      [] pc = "awaitAck" ->
            IF msg.type # "JOIN_ACK" THEN "protocol"
            ELSE IF msg.Success THEN "ok" ELSE "rejected"

\* The return of JoinNetwork: the deferred UnregisterResponseChannel calls
\* run, and the channels are garbage.
JoinReturned(j, res, msg) ==
    [j EXCEPT !.pc = "returned", !.result = res, !.last = msg, !.waited = 0,
              !.registered = {}, !.chans = [i \in JoinSteps |-> << >>],
              !.bootstrap = IF res = "ok" THEN @ ELSE 0]

HsFrame == UNCHANGED << closest, joinVars, netVars, timerVars, replVars, posVars, rpcVars, lockVars >>

\* Step 1: respChan is registered and the JOIN_REQ is sent.
JoinStart(sent) ==
    /\ joiner.pc = "idle"
    /\ IF sent
       THEN /\ joiner' = [joiner EXCEPT !.pc = "awaitChallenge", !.registered = {1}]
            /\ wire' = wire \cup {JoinReqMsg}
       ELSE /\ joiner' = JoinReturned(joiner, "senderr", NoPacket)
            /\ wire' = wire
    /\ UNCHANGED RoutingTable
    /\ HsFrame

\* A select takes the message of its channel.
JoinReceive(sent, proved) ==
    /\ Awaiting(joiner.pc)
    /\ joiner.chans[Awaited(joiner.pc)] # << >>
    /\ LET i == Awaited(joiner.pc)
           msg == Head(joiner.chans[i])
           res == JoinOnMessage(joiner.pc, msg, sent, proved)
       IN  IF res # "continue"
           THEN /\ joiner' = JoinReturned(joiner, res, msg)
                /\ wire' = wire
           ELSE /\ joiner' = [joiner EXCEPT
                        !.pc = IF i = 1 THEN "awaitPos" ELSE "awaitAck",
                        !.waited = 0,
                        !.registered = @ \cup {i + 1},
                        !.chans[i] = Tail(@),
                        !.bootstrap = IF i = 1 THEN msg.sender ELSE @,
                        !.last = msg]
                /\ wire' = wire \cup {IF i = 1 THEN JoinResMsg(msg) ELSE PosProofMsg(msg)}
    /\ UNCHANGED RoutingTable
    /\ HsFrame

\* Time passes in a select.
JoinTick ==
    /\ Awaiting(joiner.pc)
    /\ joiner.waited < HandshakeTimeout
    /\ joiner' = [joiner EXCEPT !.waited = @ + TickStep]
    /\ UNCHANGED << RoutingTable, wire >>
    /\ HsFrame

\* case <-time.After(10 * time.Second)
JoinTimedOut ==
    /\ Awaiting(joiner.pc)
    /\ joiner.waited >= HandshakeTimeout
    /\ joiner' = JoinReturned(joiner, "timeout", NoPacket)
    /\ UNCHANGED << RoutingTable, wire >>
    /\ HsFrame

\* handlePacket at the joining node on a response: it goes to the channel
\* registered under its rpc id if that has room, and is dropped otherwise.
JoinDeliver(j, msg) ==
    IF msg.rpc \in j.registered /\ Len(j.chans[msg.rpc]) < ChannelCap
    THEN [j EXCEPT !.chans[msg.rpc] = Append(@, msg)]
    ELSE j

JoinInbound(msg) ==
    /\ joiner' = JoinDeliver(joiner, msg)
    /\ UNCHANGED << RoutingTable, wire >>
    /\ HsFrame

\* The responses that can arrive from the bootstrap address.
InboundResponses ==
    { JoinChallengeMsg(rpc, Genesis, nonce) : rpc \in JoinSteps, nonce \in Nonces }
    \cup { PosChallengeMsg(rpc, Genesis, value, ChallengeIndex(value)) :
                rpc \in JoinSteps, value \in ChallengeValues }
    \cup { JoinAckMsg(rpc, Genesis, success) : rpc \in JoinSteps, success \in BOOLEAN }
    \cup { PingResMsg(rpc, Genesis) : rpc \in JoinSteps }

InitJoinClient ==
    /\ RoutingTable = [n \in {Genesis, Joiner} |-> EmptyTable]
    /\ closest = NoCall
    /\ InitJoinVars
    /\ InitNetVars
    /\ InitExtVars

NextJoinClient ==
    \/ \E sent \in BOOLEAN : JoinStart(sent)
    \/ \E sent \in BOOLEAN, proved \in BOOLEAN : JoinReceive(sent, proved)
    \/ JoinTick
    \/ JoinTimedOut
    \/ \E msg \in InboundResponses : JoinInbound(msg)

SpecJoinClient == InitJoinClient /\ [][NextJoinClient]_vars

\* The goroutine running JoinNetwork is scheduled and its timers fire.
JoinClientFairness ==
    /\ WF_vars(\E sent \in BOOLEAN, proved \in BOOLEAN : JoinReceive(sent, proved))
    /\ WF_vars(JoinTick)
    /\ WF_vars(JoinTimedOut)

SpecJoinClientLive == SpecJoinClient /\ JoinClientFairness

\* ------------------------------------------------------------ SpecHandshake
\* The joining node and the bootstrap node Genesis together: the requests of
\* JoinNetwork are handled by handlePacket at Genesis (or lost), the
\* responses are routed to the joining node's channels (or lost), other peers
\* ping Genesis, and after a successful JoinNetwork the joining node runs its
\* bootstrap step.

\* Ids that fall into the same bucket of Genesis as the joining node.
BucketMates ==
    { p \in Ids \ {Genesis, Joiner} :
        GetBucketIndex(Genesis, p) = GetBucketIndex(Genesis, Joiner) }

\* The peers that ping Genesis: the K smallest of them.
PingPeers == { p \in BucketMates : Cardinality({ q \in BucketMates : q < p }) < K }

\* handlePacket at Genesis on a request of the handshake: the pending
\* challenges and the routing table afterwards, and the response sent.
ServeHandshake(pending, table, t, req, nonce, value) ==
    IF req.type = "JOIN_REQ"
    THEN LET r == HandleJoinRequest(pending, t, req.payload, nonce) IN
         [pending |-> r.pending, table |-> table,
          reply |-> IF r.err # "" THEN NoReply
                    ELSE JoinChallengeMsg(req.rpc, Genesis, r.Nonce)]
    ELSE IF req.type = "JOIN_RES"
    THEN LET r == HandleJoinResponse(pending, table, Genesis, t, req.sender, req.payload)
             c == HandlePosChallenge(r.pending, t, req.sender, value)
         IN  IF r.err # ""
             THEN [pending |-> r.pending, table |-> r.table,
                   reply |-> JoinAckMsg(req.rpc, Genesis, FALSE)]
             ELSE [pending |-> c.pending, table |-> r.table,
                   reply |-> PosChallengeMsg(req.rpc, Genesis,
                                             c.challenge.ChallengeValue,
                                             c.challenge.StartIndex)]
    ELSE LET r == HandlePosProof(pending, table, Genesis, req.sender, req.payload) IN
         [pending |-> r.pending, table |-> r.table,
          reply |-> JoinAckMsg(req.rpc, Genesis, r.err = "")]

\* Genesis handles a request; its response reaches the joining node's
\* handlePacket unless the datagram is lost.
ServeJoin(req, nonce, value, lost) ==
    /\ req \in wire
    /\ LET r == ServeHandshake(PendingChallenges, RoutingTable[Genesis], now,
                               req, nonce, value)
       IN  /\ PendingChallenges' = r.pending
           /\ RoutingTable' = [RoutingTable EXCEPT ![Genesis] = r.table]
           /\ joiner' = IF lost \/ r.reply = NoReply THEN joiner
                        ELSE JoinDeliver(joiner, r.reply)
    /\ wire' = wire \ {req}
    /\ UNCHANGED << closest, now, handled, posIssued, netVars, timerVars, replVars,
                    posVars, rpcVars, lockVars >>

\* A request datagram is lost.
RequestLost(req) ==
    /\ req \in wire
    /\ wire' = wire \ {req}
    /\ UNCHANGED << RoutingTable, joiner >>
    /\ HsFrame

\* main after JoinNetwork returned the bootstrap contact: the contact is put
\* into the routing table and NodeLookup(self) runs. The lookup's FIND_NODE to
\* the bootstrap node is lost, or handled there and its response lost, or
\* answered; the contacts it returns are peers that do not answer.
PostJoin(outcome) ==
    /\ joiner.pc = "returned"
    /\ joiner.result = "ok"
    /\ ~joiner.posted
    /\ LET boot == joiner.bootstrap
           added == RoutingTableUpdate(RoutingTable[Joiner], Joiner, boot)
           r == HandleFindNode(RoutingTable[boot], boot, Joiner, Joiner)
       IN  RoutingTable' =
              [RoutingTable EXCEPT
                  ![boot] = IF outcome = "lost" THEN @ ELSE r.table,
                  ![Joiner] = IF outcome = "ok"
                              THEN RoutingTableUpdate(added, Joiner, boot)
                              ELSE added]
    /\ joiner' = [joiner EXCEPT !.posted = TRUE]
    /\ UNCHANGED wire
    /\ HsFrame

NextHandshake ==
    \/ \E sent \in BOOLEAN : JoinStart(sent)
    \/ \E sent \in BOOLEAN, proved \in BOOLEAN : JoinReceive(sent, proved)
    \/ JoinTick
    \/ JoinTimedOut
    \/ \E req \in wire, nonce \in Nonces, value \in ChallengeValues, lost \in BOOLEAN :
            ServeJoin(req, nonce, value, lost)
    \/ \E req \in wire : RequestLost(req)
    \/ \E sender \in PingPeers : ReceivePing(sender)
    \/ Tick
    \/ \E outcome \in Outcomes : PostJoin(outcome)

SpecHandshake == InitJoinClient /\ [][NextHandshake]_vars

\* ------------------------------------------------------------------ SpecLock
\* The read/write locks of the genesis node's routing table under one
\* goroutine calling GetClosestNodes and NumWriters goroutines calling Update,
\* every lock and unlock being a step. sync.RWMutex: RLock blocks while a
\* goroutine holds the write lock or is blocked in Lock; Lock blocks until
\* no read lock and no write lock is held.

\* RLock returns.
CanRLock(m) == m.holder = 0 /\ m.pending = {}

\* Lock returns.
CanLock(m) == m.holder = 0 /\ m.readers = 0

\* The buckets GetClosestNodes visits in iteration i of its loop: the one i
\* below bucketIndex, then the one i above.
BucketsOfRound(bucketIndex, i) ==
    (IF bucketIndex - i >= 0 THEN << bucketIndex - i >> ELSE << >>)
        \o (IF bucketIndex + i < NumBuckets THEN << bucketIndex + i >> ELSE << >>)

\* GetClosestNodes is called.
GcnCall(target, count) ==
    /\ lockers[ReaderId].pc = "idle"
    /\ lockers' = [lockers EXCEPT ![ReaderId] =
                      [IdleReader EXCEPT !.pc = "rlock_table", !.target = target,
                                         !.count = count]]
    /\ UNCHANGED << rtVars, joinVars, netVars, timerVars, replVars, posVars, rpcVars,
                    hsVars, rwmutex >>

\* rt.mutex.RLock()
GcnRLockTable ==
    /\ lockers[ReaderId].pc = "rlock_table"
    /\ CanRLock(rwmutex[RtLock])
    /\ rwmutex' = [rwmutex EXCEPT ![RtLock].readers = @ + 1]
    /\ lockers' = [lockers EXCEPT ![ReaderId].pc = "rlock_bucket",
                       ![ReaderId].todo =
                            << GetBucketIndex(Genesis, lockers[ReaderId].target) >>]
    /\ UNCHANGED << rtVars, joinVars, netVars, timerVars, replVars, posVars, rpcVars,
                    hsVars >>

\* bucket.mutex.RLock() in GetClosestNodes.
GcnRLockBucket ==
    LET b == Head(lockers[ReaderId].todo) IN
    /\ lockers[ReaderId].pc = "rlock_bucket"
    /\ CanRLock(rwmutex[b])
    /\ rwmutex' = [rwmutex EXCEPT ![b].readers = @ + 1]
    /\ lockers' = [lockers EXCEPT ![ReaderId].pc = "rlock_contacts"]
    /\ UNCHANGED << rtVars, joinVars, netVars, timerVars, replVars, posVars, rpcVars,
                    hsVars >>

\* b.mutex.RLock() in Bucket.GetContacts, called with the read lock held.
GcnRLockContacts ==
    LET b == Head(lockers[ReaderId].todo) IN
    /\ lockers[ReaderId].pc = "rlock_contacts"
    /\ CanRLock(rwmutex[b])
    /\ rwmutex' = [rwmutex EXCEPT ![b].readers = @ + 1]
    /\ lockers' = [lockers EXCEPT ![ReaderId].pc = "snapshot"]
    /\ UNCHANGED << rtVars, joinVars, netVars, timerVars, replVars, posVars, rpcVars,
                    hsVars >>

\* Bucket.GetContacts copies the contacts and returns: the deferred RUnlock.
GcnSnapshot ==
    LET b == Head(lockers[ReaderId].todo) IN
    /\ lockers[ReaderId].pc = "snapshot"
    /\ rwmutex' = [rwmutex EXCEPT ![b].readers = @ - 1]
    /\ lockers' = [lockers EXCEPT ![ReaderId].pc = "runlock_bucket",
                       ![ReaderId].nodes = @ \o RoutingTable[Genesis][b]]
    /\ UNCHANGED << rtVars, joinVars, netVars, timerVars, replVars, posVars, rpcVars,
                    hsVars >>

\* bucket.mutex.RUnlock() in GetClosestNodes, and the loop's next test.
GcnRUnlockBucket ==
    LET r == lockers[ReaderId]
        b == Head(r.todo)
        bucketIndex == GetBucketIndex(Genesis, r.target)
        round == BucketsOfRound(bucketIndex, r.i + 1)
    IN  /\ r.pc = "runlock_bucket"
        /\ rwmutex' = [rwmutex EXCEPT ![b].readers = @ - 1]
        /\ lockers' = [lockers EXCEPT ![ReaderId] =
                IF Tail(r.todo) # << >>
                THEN [r EXCEPT !.pc = "rlock_bucket", !.todo = Tail(r.todo)]
                ELSE IF Len(r.nodes) < r.count /\ round # << >>
                THEN [r EXCEPT !.pc = "rlock_bucket", !.todo = round, !.i = r.i + 1]
                ELSE [r EXCEPT !.pc = "sort", !.todo = << >>]]
        /\ UNCHANGED << rtVars, joinVars, netVars, timerVars, replVars, posVars,
                        rpcVars, hsVars >>

\* The sort, the cut to count and the return: the deferred rt.mutex.RUnlock().
GcnReturn ==
    LET r == lockers[ReaderId] IN
    /\ r.pc = "sort"
    /\ rwmutex' = [rwmutex EXCEPT ![RtLock].readers = @ - 1]
    /\ closest' = [target |-> r.target, count |-> r.count, called |-> TRUE,
                   nodes |-> Truncate(SortByDistance(r.nodes, r.target), r.count)]
    /\ lockers' = [lockers EXCEPT ![ReaderId] = IdleReader]
    /\ UNCHANGED << RoutingTable, joinVars, netVars, timerVars, replVars, posVars,
                    rpcVars, hsVars >>

\* rt.Update(contact) by goroutine g: b.mutex.Lock() is called.
UpdateLock(g, contact) ==
    /\ lockers[g].pc = "idle"
    /\ lockers' = [lockers EXCEPT ![g] = [pc |-> "lock", contact |-> contact]]
    /\ rwmutex' = [rwmutex EXCEPT ![GetBucketIndex(Genesis, contact)].pending =
                      @ \cup {g}]
    /\ UNCHANGED << rtVars, joinVars, netVars, timerVars, replVars, posVars, rpcVars,
                    hsVars >>

\* b.mutex.Lock() returns to goroutine g.
UpdateLocked(g) ==
    LET b == GetBucketIndex(Genesis, lockers[g].contact) IN
    /\ lockers[g].pc = "lock"
    /\ CanLock(rwmutex[b])
    /\ rwmutex' = [rwmutex EXCEPT ![b].holder = g, ![b].pending = @ \ {g}]
    /\ lockers' = [lockers EXCEPT ![g].pc = "locked"]
    /\ UNCHANGED << rtVars, joinVars, netVars, timerVars, replVars, posVars, rpcVars,
                    hsVars >>

\* Bucket.Update changes the bucket and returns: the deferred Unlock.
UpdateUnlock(g) ==
    LET b == GetBucketIndex(Genesis, lockers[g].contact) IN
    /\ lockers[g].pc = "locked"
    /\ RoutingTable' = [RoutingTable EXCEPT ![Genesis] =
            RoutingTableUpdate(RoutingTable[Genesis], Genesis, lockers[g].contact)]
    /\ rwmutex' = [rwmutex EXCEPT ![b].holder = 0]
    /\ lockers' = [lockers EXCEPT ![g] = IdleWriter]
    /\ UNCHANGED << closest, joinVars, netVars, timerVars, replVars, posVars, rpcVars,
                    hsVars >>

\* The contacts the writers pass to Update: two of one bucket.
LockContacts == { c \in InputIds : c < 2 }

NextLock ==
    \/ \E target \in LockContacts, count \in {1, K} : GcnCall(target, count)
    \/ GcnRLockTable
    \/ GcnRLockBucket
    \/ GcnRLockContacts
    \/ GcnSnapshot
    \/ GcnRUnlockBucket
    \/ GcnReturn
    \/ \E g \in WriterIds, c \in LockContacts : UpdateLock(g, c)
    \/ \E g \in WriterIds : UpdateLocked(g)
    \/ \E g \in WriterIds : UpdateUnlock(g)

SpecLock == InitRT /\ [][NextLock]_vars

\* ---------------------------------------------------------------- SpecLookup
\* NodeLookup and the loop of FindValue at the genesis node against peers
\* that answer FIND_NODE and FIND_VALUE with any contacts: a request fails
\* (it is lost or times out) or is answered with up to MaxReply contacts of
\* LookupIds, the caller's own id among them. Between two calls inbound
\* datagrams put their senders into the routing table.
LookupIds == { c \in InputIds : c < LookupPeers } \cup {Genesis}

\* The contact lists of a reply: no id twice.
Replies ==
    { r \in UNION { [1 .. l -> LookupIds] : l \in 0 .. MaxReply } :
        \A i, j \in DOMAIN r : i # j => r[i] # r[j] }

\* state.MarkContacted(candidate.ID) on success only.
MarkContactedOnSuccess(contacted, id, failed) ==
    IF failed THEN contacted ELSE contacted \cup {id}

\* state.MarkContacted(candidate.ID), called whether or not the RPC failed.
MarkContacted(contacted, id, failed) == contacted \cup {id}

\* handlePacket: a datagram from sender arrives while no lookup runs.
LookupSeed(sender) ==
    /\ running = Idle
    /\ RoutingTable' = [RoutingTable EXCEPT ![Genesis] = HandlePing(@, Genesis, sender)]
    /\ result' = NoResult
    /\ UNCHANGED << closest, joinVars, Storage, ReplicationTimers, joined, running,
                    calls, extVars >>

\* Node.NodeLookup(targetID) is called.
NodeLookupCall(targetID) ==
    /\ running = Idle
    /\ running' = NewCall("NodeLookup", Genesis, "lookup", targetID, 0,
                          GetClosestNodes(RoutingTable[Genesis], Genesis, targetID, K))
    /\ result' = NoResult
    /\ UNCHANGED << RoutingTable, closest, joinVars, Storage, ReplicationTimers, joined,
                    calls, extVars >>

\* One round of the loop of NodeLookup: SendFindNode to the candidate fails
\* or returns newNodes. result records the round and its reply.
NodeLookupRound(failed, newNodes) ==
    /\ running.op = "NodeLookup"
    /\ ~running.exit
    /\ PickNextBest(running.Shortlist, running.Contacted) # 0
    /\ LET i == PickNextBest(running.Shortlist, running.Contacted)
           candidate == running.Shortlist[i]
           shortlist == LookupAppend(running.Shortlist, running.key, newNodes)
           asked == [running EXCEPT
                        !.Contacted = MarkContacted(@, candidate, failed),
                        !.rpcs = @ + 1]
       IN  /\ result' = [op |-> "round", candidate |-> candidate, failed |-> failed,
                         nodes |-> IF failed THEN << >> ELSE newNodes]
           /\ IF failed
              THEN /\ running' = asked
                   /\ UNCHANGED RoutingTable
              ELSE /\ running' = [asked EXCEPT !.Shortlist = shortlist,
                                               !.exit = running.key \in SeqToSet(newNodes)]
                   /\ RoutingTable' = [RoutingTable EXCEPT ![Genesis] =
                          RoutingTableUpdate(@, Genesis,
                                             Deref(running.Shortlist, shortlist, i))]
    /\ UNCHANGED << closest, joinVars, Storage, ReplicationTimers, joined, calls,
                    extVars >>

\* NodeLookup returns.
NodeLookupReturn ==
    /\ running.op = "NodeLookup"
    /\ LookupOver(running)
    /\ result' = [op |-> "NodeLookup", key |-> running.key, exit |-> running.exit,
                  Shortlist |-> running.Shortlist, rpcs |-> running.rpcs,
                  nodes |-> LookupResult(running)]
    /\ running' = Idle
    /\ UNCHANGED << RoutingTable, closest, joinVars, Storage, ReplicationTimers, joined,
                    calls, extVars >>

\* Node.FindValue(key) is called.
FindValueLookupCall(key) ==
    /\ running = Idle
    /\ LET localCandidates ==
              GetClosestNodes(RoutingTable[Genesis], Genesis, key, FindCount)
       IN  IF key \in DOMAIN Storage[Genesis]
           THEN /\ result' = FindValueResult(Genesis, key, TRUE, Storage[Genesis][key],
                                             0, 0, NoResult)
                /\ running' = Idle
           ELSE IF Len(localCandidates) = 0
           THEN /\ result' = FindValueResult(Genesis, key, FALSE, 0, 0, 0, NoResult)
                /\ running' = Idle
           ELSE /\ result' = NoResult
                /\ running' = NewCall("FindValue", Genesis, "find", key, 0,
                                      localCandidates)
    /\ UNCHANGED << RoutingTable, closest, joinVars, Storage, ReplicationTimers, joined,
                    calls, extVars >>

\* One round of the loop of FindValue: SendFindValue to the candidate fails,
\* returns the value, or returns nodes.
FindValueRound(failed, value, nodes) ==
    /\ running.op = "FindValue"
    /\ PickNextBest(running.Shortlist, running.Contacted) # 0
    /\ LET i == PickNextBest(running.Shortlist, running.Contacted)
           candidate == running.Shortlist[i]
           shortlist == IF Len(nodes) > 0
                        THEN LookupAppend(running.Shortlist, running.key, nodes)
                        ELSE running.Shortlist
           asked == [running EXCEPT
                        !.Contacted = MarkContacted(@, candidate, failed),
                        !.hops = @ + 1, !.rpcs = @ + 1]
       IN  IF failed
           THEN /\ running' = asked
                /\ result' = [op |-> "round", candidate |-> candidate, failed |-> TRUE,
                              nodes |-> << >>]
                /\ UNCHANGED RoutingTable
           ELSE IF value # 0
           THEN /\ running' = Idle
                /\ result' = FindValueResult(Genesis, running.key, TRUE, value,
                                             asked.hops, asked.rpcs, NoResult)
                /\ UNCHANGED RoutingTable
           ELSE /\ running' = [asked EXCEPT !.Shortlist = shortlist]
                /\ result' = [op |-> "round", candidate |-> candidate, failed |-> FALSE,
                              nodes |-> nodes]
                /\ RoutingTable' = [RoutingTable EXCEPT ![Genesis] =
                       RoutingTableUpdate(@, Genesis,
                                          Deref(running.Shortlist, shortlist, i))]
    /\ UNCHANGED << closest, joinVars, Storage, ReplicationTimers, joined, calls,
                    extVars >>

\* Node.FindValue with nobody left to ask.
FindValueLookupReturn ==
    /\ running.op = "FindValue"
    /\ PickNextBest(running.Shortlist, running.Contacted) = 0
    /\ result' = FindValueResult(Genesis, running.key, FALSE, 0, running.hops,
                                 running.rpcs, NoResult)
    /\ running' = Idle
    /\ UNCHANGED << RoutingTable, closest, joinVars, Storage, ReplicationTimers, joined,
                    calls, extVars >>

NextLookup ==
    \/ \E sender \in LookupIds \ {Genesis} : LookupSeed(sender)
    \/ \E targetID \in LookupIds : NodeLookupCall(targetID)
    \/ \E failed \in BOOLEAN, newNodes \in Replies : NodeLookupRound(failed, newNodes)
    \/ NodeLookupReturn
    \/ \E key \in LookupIds : FindValueLookupCall(key)
    \/ \E failed \in BOOLEAN, value \in 0 .. 1, nodes \in Replies :
            FindValueRound(failed, value, nodes)
    \/ FindValueLookupReturn

SpecLookup == InitRT /\ [][NextLookup]_vars

\* NodeLookup is a sequential loop and every SendFindNode returns, with a
\* reply or with the timeout of the request: a lookup that can make its next
\* round or return does so.
\* Weak fairness is written with the enabling conditions spelled out.
NodeLookupCanStep ==
    /\ running.op = "NodeLookup"
    /\ \/ LookupOver(running)
       \/ PickNextBest(running.Shortlist, running.Contacted) # 0

NodeLookupStepped ==
    /\ running.op = "NodeLookup"
    /\ running' # running

SpecLookupLive ==
    /\ SpecLookup
    /\ []<>(~NodeLookupCanStep) \/ []<><<NodeLookupStepped>>_vars

\* ================================================================== claims
NoDuplicates(s) == \A i, j \in 1 .. Len(s) : i # j => s[i] # s[j]

Min(a, b) == IF a < b THEN a ELSE b

\* C8: every bucket of every routing table holds at most K contacts and no
\* two contacts of one bucket have the same id.
C8_BucketBounded ==
    \A n \in DOMAIN RoutingTable : \A i \in 0 .. (NumBuckets - 1) :
        /\ Len(RoutingTable[n][i]) <= K
        /\ NoDuplicates(RoutingTable[n][i])

\* C8 witness: a bucket is filled to capacity while more ids than K map to it.
C8_Witness ==
    /\ Len(RoutingTable[Genesis][0]) = K
    /\ Cardinality({ c \in InputIds : GetBucketIndex(Genesis, c) = 0 }) > K

\* C9 (as claimed): no contact left out of the result of GetClosestNodes is
\* strictly closer to the target than a contact included in it.
C9_ClosestOfAll ==
    closest.called =>
        \A out \in AllContacts(RoutingTable[Genesis]) \ SeqToSet(closest.nodes) :
            \A r \in SeqToSet(closest.nodes) :
                ~Less(Xor(out, closest.target), Xor(r, closest.target))

\* C10: the result of GetClosestNodes has no duplicate ids, is strictly
\* ascending by XOR distance to the target, and has min(count, total) entries.
C10_SortedDistinct ==
    closest.called =>
        /\ NoDuplicates(closest.nodes)
        /\ \A i \in 1 .. (Len(closest.nodes) - 1) :
              Less(Xor(closest.nodes[i], closest.target),
                   Xor(closest.nodes[i + 1], closest.target))
        /\ Len(closest.nodes) = Min(closest.count, TotalContacts(RoutingTable[Genesis]))

\* C10 witness: a call that truncates (more contacts than count) and returns
\* contacts pooled from more than one bucket.
C10_Witness ==
    /\ closest.called
    /\ closest.count = K
    /\ TotalContacts(RoutingTable[Genesis]) > K
    /\ Len(closest.nodes) = K
    /\ \E i, j \in 1 .. Len(closest.nodes) :
          GetBucketIndex(Genesis, closest.nodes[i]) # GetBucketIndex(Genesis, closest.nodes[j])

\* ------------------------------------------------- claims of the handshake
InTable(n, p) == p \in AllContacts(RoutingTable[n])

Accepted(reply) ==
    \/ reply.type = "POS_CHALLENGE"
    \/ reply.type = "JOIN_ACK" /\ reply.Success

Rejected(reply) == reply.type = "JOIN_ACK" /\ ~reply.Success

\* C1 (as claimed): the handshake puts a joining peer into the server's
\* routing table only in the step in which HandlePosProof verified the peer's
\* proof; a step that handles a JOIN_RES never puts the peer in.
C1_InsertOnlyAtPosProof ==
    [][\A p \in JoinPeers :
          (~InTable(Genesis, p) /\ (p \in AllContacts(RoutingTable'[Genesis])))
              => /\ handled'.type = "POS_PROOF"
                 /\ handled'.sender = p
                 /\ Accepted(handled'.reply)]_vars

\* C2 (as claimed): a POS_PROOF from p is answered with JOIN_ACK(success) only
\* if, in the same handshake, the server sent p a POS_CHALLENGE (which it does
\* after accepting p's JOIN_REQ and verifying p's JOIN_RES) and the proof
\* answers that challenge; a POS_PROOF that arrives with no challenge
\* outstanding is answered with JOIN_ACK(failure) and leaves the table alone.
C2_PosProofInOrder ==
    [][handled'.type = "POS_PROOF" =>
          LET p == handled'.sender
              issued == posIssued[p]
          IN  /\ Accepted(handled'.reply) =>
                    /\ issued.issued
                    /\ issued.ChallengeValue = handled'.payload.ChallengeValue
                    /\ issued.StartIndex = handled'.payload.StartIndex
              /\ ~issued.issued =>
                    /\ Rejected(handled'.reply)
                    /\ RoutingTable' = RoutingTable]_vars

\* C3 (as claimed): a JOIN_REQ whose public key does not generate its peer id
\* is answered, with a JOIN_ACK that reports failure.
C3_SybilAnswered ==
    (/\ handled.type = "JOIN_REQ"
     /\ handled.payload.PublicKey.parses
     /\ ~CheckPublicKeyMatchesPeerID(handled.payload.PublicKey.key,
                                     handled.payload.PeerID))
        => Rejected(handled.reply)

\* C4: a JOIN_RES from p is accepted only if a pending challenge is recorded
\* under p's id, it is at most ChallengeTTL seconds old and the signature
\* verifies over its nonce under its public key; every other JOIN_RES is
\* answered with JOIN_ACK(failure) and does not change the routing table.
C4_JoinResChecked ==
    [][handled'.type = "JOIN_RES" =>
          LET p == handled'.sender
              entry == PendingChallenges[p]
              good == /\ entry.exists
                      /\ now - entry.Timestamp <= ChallengeTTL
                      /\ handled'.payload.Signature.signer = entry.PubKey.key
                      /\ handled'.payload.Signature.msg = entry.Nonce
          IN  /\ Accepted(handled'.reply) => good
              /\ ~good => /\ Rejected(handled'.reply)
                          /\ RoutingTable' = RoutingTable]_vars

\* A JOIN_RES was accepted some time after the clock started, while another
\* peer's challenge is pending and older than ChallengeTTL.
C4_Witness ==
    /\ handled.type = "JOIN_RES"
    /\ Accepted(handled.reply)
    /\ InTable(Genesis, handled.sender)
    /\ now > 0
    /\ \E q \in JoinPeers :
          /\ PendingChallenges[q].exists
          /\ now - PendingChallenges[q].Timestamp > ChallengeTTL

\* ---------------------------------------------- claims of Store / FindValue
\* C5 (as claimed): when Store has returned at a node, with or without any
\* contact in its routing table, the key is in the node's local storage and
\* the node's timer table holds a replication timer of the key.
C5_StoredWithTimer ==
    result.op = "Store" =>
        /\ result.key \in DOMAIN Storage[result.node]
        /\ result.key \in ReplicationTimers[result.node]

\* C6: FindValue(k) called at n immediately after Store(k, v) returned at n
\* returns v with hop count 0 and has sent no RPC, whether Store found peers
\* or not.
C6_RoundTrip ==
    (/\ result.op = "FindValue"
     /\ result.after.op = "Store"
     /\ result.after.node = result.node
     /\ result.after.key = result.key)
        => /\ result.found
           /\ result.value = result.after.value
           /\ result.hops = 0
           /\ result.rpcs = 0

\* FindValue returned right after a Store that found no node to replicate to.
C6_Witness ==
    /\ result.op = "FindValue"
    /\ result.after.op = "Store"
    /\ result.after.node = result.node
    /\ result.after.key = result.key
    /\ result.after.err
    /\ result.found
    /\ result.value = NumValues

\* C7 (as claimed): no routing table holds a contact with the id of the node
\* the table belongs to.
C7_NoSelfContact ==
    \A n \in DOMAIN RoutingTable : ~InTable(n, n)

\* ------------------------------------------- claims of the replication timer
\* A step in which startReplicationTimer ran for the key: the newest timer
\* instance is one of this step and belongs to the key.
TimerStarted(key) ==
    /\ Len(workers') = Len(workers) + 1
    /\ workers'[Len(workers')].key = key

\* C11: when a timer is started for a key that already has one, the old
\* timer's stop channel is closed and the key's entry of the timer table is
\* replaced by the new timer; the entry of a key is always one timer of that
\* key, and it is never a cancelled one.
C11_RestartReplaces ==
    /\ [][\A key \in DOMAIN timerOf :
            TimerStarted(key) =>
                /\ workers'[timerOf[key]].stopClosed
                /\ workers'[timerOf[key]].tickerStopped
                /\ key \in DOMAIN timerOf'
                /\ timerOf'[key] = Len(workers')
                /\ timerOf'[key] # timerOf[key]]_vars
    /\ [](\A key \in DOMAIN timerOf :
            /\ timerOf[key] \in DOMAIN workers
            /\ workers[timerOf[key]].key = key
            /\ ~workers[timerOf[key]].stopClosed)

\* C11 witness: a timer was cancelled by a restart and a later timer of the
\* same key holds the entry.
C11_Witness ==
    \E w \in DOMAIN workers :
        /\ workers[w].stopClosed
        /\ workers[w].key \in DOMAIN timerOf
        /\ timerOf[workers[w].key] > w

Exited(timer) == timer.pc \in {"stopped", "gone"}

C13_RemovedKeyStopsTimer ==
    /\ [][\A w \in DOMAIN workers :
            /\ (/\ workers[w].pc = "select"
                /\ workers'[w].pc \notin {"select", "stopped"}
                /\ workers[w].key \notin DOMAIN Storage[Genesis])
                    => workers'[w].pc = "delete"
            /\ (workers[w].pc = "delete" /\ workers'[w].pc # "delete")
                    => /\ workers'[w].pc = "gone"
                       /\ workers'[w].tickerStopped
                       /\ workers[w].key \notin DOMAIN timerOf'
                       /\ workers[w].key \notin ReplicationTimers'[Genesis]]_vars
    /\ \A w \in TimerIds :
            (w \in DOMAIN workers /\ workers[w].pc = "delete")
                ~> (w \in DOMAIN workers /\ workers[w].pc = "gone")

\* C13 witness: a key was stored with a timer, then removed; the goroutine has
\* returned through the !exists branch and the key has no entry.
C13_Witness ==
    \E w \in DOMAIN workers :
        /\ workers[w].pc = "gone"
        /\ workers[w].key \notin DOMAIN Storage[Genesis]
        /\ workers[w].key \notin DOMAIN timerOf

\* -------------------------------------------------- claims of republication
Holds(n, key) == key \in DOMAIN Storage[n] /\ key \in ReplicationTimers[n]

\* The Store begun by the last tick has just returned.
TickStoreReturned ==
    /\ running = Idle
    /\ result.op = "Store"
    /\ ticked.node # 0
    /\ ticked.calls = calls
    /\ result.node = ticked.node

C15_FoundProofVerifies ==
    (posResult.op = "Search" /\ posResult.res.found)
        => PlotVerifyProof(plotPeer, Challenge(posResult.prefix), posResult.res.proof)

\* C15 witness: a search has returned a proof.
C15_Witness ==
    /\ posResult.op = "Search"
    /\ posResult.res.found
    /\ HashPrefix(posResult.res.proof.Hash, PosPrefixBits) = posResult.prefix

\* The proof handed to VerifyProof carries the raw value that a search of
\* another peer's plot builds.
ForOtherPeer ==
    \E q \in PosPeers \ {posInput.peerID}, i \in 0 .. (PosNumEntries - 1) :
        posInput.proof.RawValue = RawValue(q, i)

\* C16: VerifyProof returns false for a proof made for a different peer id,
\* and for a proof whose hash field is not SHA256 of its raw value.
C16_WrongPeerOrHashRejected ==
    (/\ posResult.op = "Verify"
     /\ ForOtherPeer \/ posInput.proof.Hash # Sha256(posInput.proof.RawValue))
        => ~posResult.ok

\* C16 witness: a proof of another peer with the right hash and the prefix of
\* the challenge was verified and rejected.
C16_Witness ==
    /\ posResult.op = "Verify"
    /\ ForOtherPeer
    /\ posInput.proof.Hash = Sha256(posInput.proof.RawValue)
    /\ HashMatchesPrefix(posInput.proof.Hash, PosPrefixBits, posInput.prefix)
    /\ ~posResult.ok

\* A raw value of the form <64 hex digits>_<decimal index>.
WellFormed(str) ==
    /\ Len(str) = 3
    /\ str[1].kind = "hex"
    /\ str[2] = Underscore
    /\ str[3].kind = "dec"

\* C17 (as claimed): VerifyProof returns false for every proof whose raw
\* value is not <64 hex digits>_<decimal index>.
C17_MalformedRejected ==
    (posResult.op = "Verify" /\ ~WellFormed(posInput.proof.RawValue))
        => ~posResult.ok

Sorted(entries) ==
    \A i \in 1 .. (Len(entries) - 1) : ~HashLess(entries[i + 1].Hash, entries[i].Hash)

\* C18: the plot file that generation writes has exactly PosNumEntries
\* entries in ascending order of hash, every index below PosNumEntries occurs
\* in exactly one entry, and the hash of an entry is SHA256 of
\* hex64(peer id) "_" decimal(index).
C18_PlotSortedComplete ==
    plotFile.exists =>
        /\ Len(plotFile.entries) = PosNumEntries
        /\ Sorted(plotFile.entries)
        /\ \A i \in 0 .. (PosNumEntries - 1) :
              Cardinality({ j \in DOMAIN plotFile.entries :
                              plotFile.entries[j].Index = i }) = 1
        /\ \A j \in DOMAIN plotFile.entries :
              plotFile.entries[j].Hash
                  = Sha256(RawValue(plotPeer, plotFile.entries[j].Index))

\* C18 witness: generation has merged more than one chunk, and the chunks
\* put end to end would not have been in order.
C18_Witness ==
    /\ plotFile.exists
    /\ posResult.op = "GeneratePlot"
    /\ posResult.generated
    /\ NumChunks > 1
    /\ ~Sorted(ConcatChunks([c \in 1 .. NumChunks |-> GenerateChunk(plotPeer, c - 1)]))

\* ------------------------------------------------ claims of the RPC layer
InFlight(i) == requests[i].pc \in {"waiting", "got", "timeout"}

\* C19 (as claimed): two outbound requests of the node never carry the same
\* rpc id, so two requests in flight never share a registration.
C19_DistinctRpcIds ==
    \A i, j \in DOMAIN requests : i # j => requests[i].RPCID # requests[j].RPCID

Delivered(i) == SeqToSet(requests[i].chan) \cup
                    (IF requests[i].resp = NoResponse THEN {} ELSE {requests[i].resp})

OtherVarsUnchanged ==
    UNCHANGED << RoutingTable, closest, joinVars, netVars, timerVars, replVars,
                 posVars, nanos, ResponseChannels, requests >>

\* C20: a response only ever reaches a channel that was registered under the
\* response's rpc id; a request takes at most one response; a channel never
\* holds more than its one slot and a response that finds it full is dropped
\* with everything else as it was; and a response whose rpc id has no
\* registered channel is dropped without changing any state of the node.
C20_ResponseCorrelation ==
    /\ [](\A i \in DOMAIN requests :
            /\ \A m \in Delivered(i) : m.RPCID = requests[i].RPCID
            /\ requests[i].received <= 1
            /\ Len(requests[i].chan) <= ChannelCap)
    /\ [][ (lastPacket' # lastPacket /\ lastPacket'.type = "response")
           => /\ lastPacket'.outcome = "none"
                    => /\ lastPacket'.RPCID \notin DOMAIN ResponseChannels
                       /\ OtherVarsUnchanged
              /\ lastPacket'.outcome = "looked"
                    => /\ lastPacket'.RPCID \in DOMAIN ResponseChannels
                       /\ ResponseChannels[lastPacket'.RPCID] = lastPacket'.ch
                       /\ OtherVarsUnchanged
              /\ lastPacket'.outcome = "full" => OtherVarsUnchanged
              /\ lastPacket'.outcome = "delivered"
                    => requests' = [requests EXCEPT ![lastPacket.ch].chan =
                            Append(@, Response(lastPacket.RPCID))]
         ]_vars

\* A request has returned with its response, a later response for its rpc id
\* found no channel, and before that a response found a channel full.
C20_Witness ==
    /\ lastPacket.type = "response"
    /\ lastPacket.outcome = "none"
    /\ \E i \in DOMAIN requests :
            /\ requests[i].pc = "returned"
            /\ requests[i].received = 1
            /\ requests[i].RPCID = lastPacket.RPCID
    /\ \E j \in DOMAIN requests : Len(requests[j].chan) = ChannelCap

\* --------------------------------------------- claims of the joining node
JoinReturns == joiner.pc # "returned" /\ joiner'.pc = "returned"

\* The message taken by the select of the step, if the step took one.
JoinTook == Awaiting(joiner.pc) /\ joiner'.last # NoPacket

\* C21: a started JoinNetwork returns. It returns success exactly when the
\* last select took a JOIN_ACK with success=true; a select that took a
\* message of an unexpected type returns the protocol failure; one that took
\* a JOIN_ACK with success=false returns the rejection; and a select that
\* took no message returns the timeout, and only after the full wait.
C21_JoinNetworkReturns ==
    /\ [][ JoinReturns =>
            LET pc == joiner.pc
                m == joiner'.last
                res == joiner'.result
            IN  /\ res = "ok" <=> /\ JoinTook
                                  /\ pc \in {"awaitPos", "awaitAck"}
                                  /\ m = Head(joiner.chans[Awaited(pc)])
                                  /\ m.type = "JOIN_ACK"
                                  /\ m.Success
                /\ (JoinTook /\ pc = "awaitChallenge" /\ m.type # "JOIN_CHALLENGE")
                        => res = "protocol"
                /\ (JoinTook /\ pc = "awaitPos" /\ m.type \notin {"JOIN_ACK", "POS_CHALLENGE"})
                        => res = "protocol"
                /\ (JoinTook /\ pc = "awaitAck" /\ m.type # "JOIN_ACK")
                        => res = "protocol"
                /\ (JoinTook /\ pc \in {"awaitPos", "awaitAck"}
                        /\ m.type = "JOIN_ACK" /\ ~m.Success)
                        => res = "rejected"
                /\ (Awaiting(pc) /\ ~JoinTook)
                        => res = "timeout" /\ joiner.waited >= HandshakeTimeout
         ]_vars
    /\ (joiner.pc # "idle") ~> (joiner.pc = "returned")

\* JoinNetwork went through all three steps and returned success.
C21_Witness ==
    /\ joiner.pc = "returned"
    /\ joiner.result = "ok"
    /\ Cardinality(wire) = 3

JoinedAndPosted == joiner.pc = "returned" /\ joiner.result = "ok" /\ joiner.posted

JoinerBucket == RoutingTable[Genesis][GetBucketIndex(Genesis, Joiner)]

TwoNodeFind ==
    /\ Cardinality(joined) = 2
    /\ result.op = "FindValue"
    /\ result.node = Genesis
    /\ result.after.op = "Store"
    /\ result.after.node \in joined \ {Genesis}
    /\ result.after.key = result.key
    /\ ~result.after.err

\* C23 (as claimed): in a network of the genesis node and one node that
\* joined through it, FindValue(k) at the genesis node after the other node's
\* Store(k, v) has completed returns v with a hop count of at least 1 and at
\* most K.
C23_TwoNodeFind ==
    TwoNodeFind =>
        /\ result.found
        /\ result.value = result.after.value
        /\ result.hops >= 1
        /\ result.hops <= K

\* C23 (amended): on a network that delivers every datagram, FindValue(k) at
\* the genesis node after the other node's Store(k, v) has completed returns
\* v with hop count 0 and without an RPC: the genesis node holds the replica
\* that the Store sent it.
C23_TwoNodeFindLocal ==
    TwoNodeFind =>
        /\ result.found
        /\ result.value = result.after.value
        /\ result.hops = 0
        /\ result.rpcs = 0

\* The two-node lookup returned the value stored last.
C23_Witness ==
    /\ TwoNodeFind
    /\ result.found
    /\ result.value = NumValues

\* A step in which FindValue returns.
FindValueReturns == result'.op = "FindValue" /\ result' # result

\* C24: the hop count FindValue returns is the number of FIND_VALUE RPCs it
\* sent, and no two of them went to the same contact. A call that finds the
\* key in local storage returns it with 0 hops; a call that finds neither the
\* key nor any contact returns NotFound with 0 hops; a call that has asked
\* everybody returns NotFound with the number of contacts it queried.
C24_HopsCountRpcs ==
    /\ [](running.op = "FindValue" =>
            /\ running.hops = running.rpcs
            /\ running.rpcs = Cardinality(running.Contacted))
    /\ [][ FindValueReturns =>
            LET n == result'.node
                key == result'.key
            IN  /\ result'.hops = result'.rpcs
                /\ running = Idle =>
                      /\ result'.hops = 0
                      /\ result'.found <=> key \in DOMAIN Storage[n]
                      /\ result'.found => result'.value = Storage[n][key]
                      /\ ~result'.found => AllContacts(RoutingTable[n]) = {}
                /\ running # Idle =>
                      /\ key \notin DOMAIN Storage[n]
                      /\ result'.found => result'.hops = Cardinality(running.Contacted) + 1
                      /\ ~result'.found =>
                            /\ result'.hops = Cardinality(running.Contacted)
                            /\ SeqToSet(running.Shortlist) \subseteq running.Contacted
         ]_vars
    /\ [][ (running = Idle /\ running'.op = "FindValue") =>
                /\ running'.key \notin DOMAIN Storage[running'.node]
                /\ AllContacts(RoutingTable[running'.node]) # {}
         ]_vars

\* FindValue asked both other nodes and returned NotFound with 2 hops.
C24_Witness ==
    /\ result.op = "FindValue"
    /\ ~result.found
    /\ result.hops = 2
    /\ result.rpcs = 2

\* A step of a FindValue call: its start, one of its RPCs, or its return.
FindValueActs ==
    \/ running.op = "FindValue"
    \/ running'.op = "FindValue"
    \/ FindValueReturns

\* The node whose FindValue call the step belongs to.
FindValueCaller ==
    IF running.op = "FindValue" THEN running.node
    ELSE IF running'.op = "FindValue" THEN running'.node
    ELSE result'.node

StoreReturns == running.op = "Store" /\ running' = Idle

\* C26: Store returns an error exactly when NodeLookup(key) returned no
\* contact; with at least one contact it returns success whatever became of
\* the STORE RPCs, and it has then sent a STORE to every contact returned
\* other than itself, failures in between or not; either way the pair is in
\* the local storage when Store returns.
C26_StoreErrorOnlyWithoutPeers ==
    [][ StoreReturns =>
            LET n == result'.node IN
            /\ result'.op = "Store"
            /\ result'.err <=> result'.closestNodes = << >>
            /\ result'.sent = Len(FilterSeq(result'.closestNodes, n))
            /\ result'.successCount <= result'.sent
            /\ result'.key \in DOMAIN Storage'[n]
            /\ Storage'[n][result'.key] = result'.value
      ]_vars

\* Store returned success after a STORE to each of two contacts, none of
\* which was acknowledged.
C26_Witness ==
    /\ result.op = "Store"
    /\ ~result.err
    /\ result.sent = 2
    /\ result.successCount = 0

\* The server handles p's POS_PROOF in this step, more than the TTL after it
\* sent p the POS_CHALLENGE still outstanding.
LatePosProof(p) ==
    /\ posIssued[p].issued
    /\ ChallengeExpired(posIssued[p].at, now)
    /\ handled'.type = "POS_PROOF"
    /\ handled'.sender = p
    /\ ~posIssued'[p].issued

\* C27 (as claimed): a POS_PROOF handled after the deadline of its challenge
\* is answered with JOIN_ACK(failure), whether or not the proof verifies, and
\* the sender is not admitted by it.
C27_LateProofRejected ==
    [][\A p \in JoinPeers :
          LatePosProof(p) => /\ Rejected(handled'.reply)
                             /\ RoutingTable' = RoutingTable]_vars

\* C28 (as claimed): every entry of the pending-challenge table is removed
\* at some later time, also when its peer sends nothing more.
C28_PendingEventuallyRemoved ==
    \A p \in JoinPeers :
        PendingChallenges[p].exists ~> ~PendingChallenges[p].exists

\* The buckets of table that hold the contact c.
BucketsHolding(table, c) ==
    { b \in 0 .. (NumBuckets - 1) : c \in SeqToSet(table[b]) }

\* C29: every contact other than the node itself that a routing table holds
\* is in exactly one bucket, the one whose index is the length of the prefix
\* the contact's id shares with the node's id (at most the last index).
C29_ContactInItsBucket ==
    \A n \in DOMAIN RoutingTable : \A c \in Ids \ {n} :
        \A b \in BucketsHolding(RoutingTable[n], c) :
            /\ b = Min(PrefixLen(n, c), NumBuckets - 1)
            /\ BucketsHolding(RoutingTable[n], c) = {b}

\* C29 witness: the table holds contacts in two buckets, a full one among
\* them.
C29_Witness ==
    /\ Len(RoutingTable[Genesis][0]) = K
    /\ RoutingTable[Genesis][1] # << >>
    /\ \A c \in SeqToSet(RoutingTable[Genesis][0]) \cup SeqToSet(RoutingTable[Genesis][1]) :
            c # Genesis

\* The contacts of a bucket other than c, in the bucket's order.
Others(contacts, c) == SelectSeq(contacts, LAMBDA x : x # c)

\* The bucket that the last Update call worked on, before and after it.
UpdatedBefore == result.before[GetBucketIndex(Genesis, result.contact)]
UpdatedAfter == RoutingTable[Genesis][GetBucketIndex(Genesis, result.contact)]

\* C30: after Update(c) on a bucket that held c, c is at the tail, the length
\* is what it was and the other contacts keep their order; on a bucket of K
\* contacts without c, the bucket is what it was; on any other bucket, the
\* bucket is the old one with c appended.
C30_BucketUpdateEffect ==
    result.op = "Update" =>
        LET c == result.contact IN
        IF c \in SeqToSet(UpdatedBefore)
        THEN /\ UpdatedAfter[Len(UpdatedAfter)] = c
             /\ Len(UpdatedAfter) = Len(UpdatedBefore)
             /\ Others(UpdatedAfter, c) = Others(UpdatedBefore, c)
        ELSE IF Len(UpdatedBefore) >= K
        THEN UpdatedAfter = UpdatedBefore
        ELSE UpdatedAfter = Append(UpdatedBefore, c)

\* C30 witness: Update moved the head of a full bucket to its tail.
C30_Witness ==
    /\ result.op = "Update"
    /\ Len(UpdatedBefore) = K
    /\ Head(UpdatedBefore) = result.contact
    /\ UpdatedAfter = Append(Tail(UpdatedBefore), result.contact)

\* ------------------------------------ claims of the prefix comparison on bytes
\* Bit i of a byte string, the most significant bit of byte 0 being bit 0.
BitOf(bytes, i) == (HashByte(bytes, i \div 8) \div 2 ^ (7 - (i % 8))) % 2

\* Two byte strings agree on their first t bits.
SameTopBits(a, b, t) == \A i \in 0 .. (t - 1) : BitOf(a, i) = BitOf(b, i)

\* The challenge drawn has the ceil(prefixBits / 8) bytes its bits need.
PrefixLongEnough == Len(posInput.prefix) * 8 >= posInput.prefixBits

\* C31: for a number of prefix bits T that is not a multiple of 8, the
\* results of comparePrefixToHash and hashMatchesPrefix are the same for any
\* two hashes that agree on their top T bits and any two prefixes of one
\* length that agree on their top T bits: the low bits of the final prefix
\* byte decide nothing.
C31_OnlyTopBitsCompared ==
    (/\ posResult.op = "Compare"
     /\ posInput.prefixBits % 8 # 0
     /\ PrefixLongEnough)
        => \A h \in LeadHashes, q \in PrefixSamples :
              (/\ Len(q) = Len(posInput.prefix)
               /\ SameTopBits(h, posResult.hash, posInput.prefixBits)
               /\ SameTopBits(q, posInput.prefix, posInput.prefixBits))
                  => /\ comparePrefixToHash(q, h, posInput.prefixBits) = posResult.cmp
                     /\ hashMatchesPrefix(h, posInput.prefixBits, q) = posResult.match

\* C31 witness: a 4-bit prefix whose byte has low bits set is compared with
\* a hash whose first byte differs from it in the low bits only, and matches.
C31_Witness ==
    /\ posResult.op = "Compare"
    /\ posInput.prefixBits = 4
    /\ posInput.prefix = << 23 >>
    /\ HashByte(posResult.hash, 0) = 16
    /\ posResult.cmp = 0
    /\ posResult.match = Matches

\* The plot entries whose hash has the top prefixBits bits of the prefix.
MatchingEntries ==
    { i \in 1 .. Len(plotFile.entries) :
        SameTopBits(plotFile.entries[i].Hash, posInput.prefix, posInput.prefixBits) }

\* C39: on a plot in ascending order of hash, a search for a prefix that has
\* all the bytes its bits need returns a proof exactly when some entry's hash
\* has the prefix's top T bits, the proof being such an entry of the plot,
\* and returns NoProof exactly when no entry has them.
C39_SearchFindsAMatch ==
    (posResult.op = "Search" /\ PrefixLongEnough) =>
        IF MatchingEntries = {}
        THEN posResult.res = SearchNoProof
        ELSE /\ posResult.res.outcome = "proof"
             /\ \E i \in MatchingEntries :
                    /\ plotFile.entries[i].Index = posResult.res.Index
                    /\ plotFile.entries[i].Hash = posResult.res.Hash

\* C39 witness: the search returned a match that is not the first entry of
\* the plot for a prefix that two entries match.
C39_Witness ==
    /\ posResult.op = "Search"
    /\ PrefixLongEnough
    /\ posInput.prefixBits = 12
    /\ Cardinality(MatchingEntries) = 2
    /\ 1 \notin MatchingEntries
    /\ posResult.res.outcome = "proof"

\* C40 (as claimed): SearchMatchingHash returns a proof or NoProof for every
\* pair of prefix bits and prefix bytes of a challenge payload; it never
\* panics.
C40_SearchNeverPanics ==
    posResult.op = "Search" => posResult.res.outcome \in {"proof", "NoProof"}

\* ------------------------------- claims of the replication timer, continued
\* The goroutine of timer w has not returned and its stop channel is open.
RunningUncancelled(w) ==
    /\ workers[w].pc \notin {"stopped", "gone"}
    /\ ~workers[w].stopClosed

\* C32 (as claimed): every timer goroutine that is running and was not
\* cancelled is the one the timer table records under its key.
C32_RunningTimerIsRecorded ==
    \A w \in DOMAIN workers :
        RunningUncancelled(w) =>
            /\ HasTimer(timerOf, workers[w].key)
            /\ timerOf[workers[w].key] = w

\* The Store that timer goroutine w called on its tick returns in this step.
RepublicationFinishes(w) ==
    /\ w \in DOMAIN workers
    /\ workers[w].pc = "store"
    /\ workers'[w].pc = "select"

\* While goroutine w was inside Store with the value it read on its tick,
\* another value was written under its key.
NewerWrite(w) ==
    /\ workers[w].key \in DOMAIN Storage[Genesis]
    /\ Storage[Genesis][workers[w].key] # workers[w].value

\* C33 (as claimed): when a republication finishes after a newer value was
\* written under its key, the key still holds the newer value.
C33_RepublicationKeepsNewerWrite ==
    [][\A w \in TimerIds :
          (RepublicationFinishes(w) /\ NewerWrite(w))
              => Storage'[Genesis][workers[w].key] = Storage[Genesis][workers[w].key]]_vars

\* ------------------------------------------- claims of the routing table locks
\* The GetClosestNodes call is blocked in an RLock of bucket lock b behind a
\* goroutine blocked in Lock, which is blocked by a read lock that the
\* GetClosestNodes call itself holds and releases only after that RLock.
MutualWait(b) ==
    /\ lockers[ReaderId].pc = "rlock_contacts"
    /\ Head(lockers[ReaderId].todo) = b
    /\ rwmutex[b].pending # {}
    /\ rwmutex[b].holder = 0
    /\ rwmutex[b].readers = 1

\* C34 (as claimed): the locks of the routing table never reach a state in
\* which the GetClosestNodes call and an Update call wait on each other.
C34_NoMutualWait == \A b \in 0 .. (NumBuckets - 1) : ~MutualWait(b)

\* ------------------------------------------------- claims of the lookup loops
\* A round of NodeLookup or FindValue was made in this step: an RPC was sent
\* and the loop goes on.
LookupRoundStep ==
    /\ running.op \in {"NodeLookup", "FindValue"}
    /\ running'.op = running.op
    /\ running'.rpcs = running.rpcs + 1
    /\ result'.op = "round"

\* C35 (as claimed): after a round whose RPC succeeded the routing table is
\* the old one with Update applied to the contact that was queried; after a
\* round whose RPC failed the routing table is the old one.
C35_PassiveUpdateOfQueried ==
    [][LookupRoundStep =>
          RoutingTable'[Genesis] =
              IF result'.failed THEN RoutingTable[Genesis]
              ELSE RoutingTableUpdate(RoutingTable[Genesis], Genesis,
                                      result'.candidate)]_vars

\* A round of NodeLookup was made in this step.
NodeLookupRoundStep == running.op = "NodeLookup" /\ LookupRoundStep

ShortlistSorted(t) ==
    \A i, j \in 1 .. Len(t.Shortlist) :
        i < j => Less(Xor(t.Shortlist[i], t.key), Xor(t.Shortlist[j], t.key))

\* C37: at every step of NodeLookup and FindValue the shortlist has no id
\* twice and ascends by XOR distance to the target, and the contact a round
\* queries is the closest of those not yet contacted.
C37_ShortlistSortedAndClosestNext ==
    /\ [](running.op \in {"NodeLookup", "FindValue"} => ShortlistSorted(running))
    /\ [][LookupRoundStep =>
             /\ result'.candidate \in SeqToSet(running.Shortlist) \ running.Contacted
             /\ \A c \in SeqToSet(running.Shortlist) \ running.Contacted :
                    c # result'.candidate =>
                        Less(Xor(result'.candidate, running.key), Xor(c, running.key))]_vars

\* A reply has put a contact in front of contacts that were in the shortlist
\* before, one of them already queried.
C37_Witness ==
    /\ running.op \in {"NodeLookup", "FindValue"}
    /\ Len(running.Shortlist) >= 3
    /\ running.Shortlist[1] \notin running.Contacted
    /\ running.Shortlist[2] \in running.Contacted

\* NodeLookup returns in this step.
NodeLookupReturns == running.op = "NodeLookup" /\ result'.op = "NodeLookup"

\* The reply of the last round held the target.
TargetReplied ==
    /\ result.op = "round"
    /\ running.key \in SeqToSet(result.nodes)

\* C38: NodeLookup returns the first min(K, |shortlist|) entries of the final
\* shortlist, at most K contacts of distinct ids in ascending distance to the
\* target; but a reply that holds a contact with the target's id ends the
\* lookup at once, and then that contact alone is returned.
C38_LookupReturnsClosestOrTarget ==
    /\ [](running.op = "NodeLookup" => (running.exit <=> TargetReplied))
    /\ [][NodeLookupReturns =>
             LET nodes == result'.nodes
                 n == IF Len(running.Shortlist) < K THEN Len(running.Shortlist) ELSE K
             IN  IF TargetReplied
                 THEN nodes = << running.key >>
                 ELSE /\ nodes = SubSeq(running.Shortlist, 1, n)
                      /\ Len(nodes) <= K
                      /\ \A i, j \in 1 .. Len(nodes) :
                            i < j => Less(Xor(nodes[i], running.key),
                                          Xor(nodes[j], running.key))]_vars

\* A lookup has returned K contacts of a longer shortlist.
C38_Witness ==
    /\ result.op = "NodeLookup"
    /\ ~result.exit
    /\ Len(result.Shortlist) > K
    /\ Len(result.nodes) = K

\* A lookup has returned the target alone, cutting a shortlist short.
C38_ExitReached ==
    /\ result.op = "NodeLookup"
    /\ result.exit
    /\ Len(result.Shortlist) > 1

====
